---- MODULE Spec2Model ----
(***************************************************************************)
(* A model of summarize: the file corpus aggregation pipeline              *)
(* (process_path / collect_file_contents), the formatters and the Writer,  *)
(* the TokenReport, and the two-phase token counting engine                *)
(* (process_token_count).                                                  *)
(*                                                                         *)
(* Text is a sequence of one-character strings, so that extensions, glob   *)
(* matching, backtick fences and line numbers are computed on characters.  *)
(***************************************************************************)
EXTENDS Integers, Sequences, FiniteSets, TLC

VARIABLES
    cli,            \* the parsed command line (cli.rs), fixed during a run
    fs,             \* the host: directory order, hardware parallelism
    pc,             \* position of the main thread
    rootIdx,        \* index in cli.paths of the root being processed
    walk,           \* the walker's stack of entries still to visit
    writer,         \* Writer: document_index and the lines written so far
    reads,          \* per path, the number of std::fs::read_to_string calls on it
    all_files,      \* process_token_count: the discovered file list
    shared_results, \* Mutex<HashMap<PathBuf, usize>>
    token_counter,  \* Mutex<usize>
    progress,       \* position of the counting progress bar
    locks,          \* holder of each mutex (0: free)
    workers,        \* per pool thread: the item it is on and where
    claimed,        \* indices of all_files handed to a worker
    final_results,  \* entries of the unwrapped map not merged yet
    report,         \* TokenReport
    pool,           \* threads of rayon's global pool (0: not built yet)
    content,        \* formatter input of the formatter-only specification
    ops,            \* number of calls made (specifications of single functions)
    ret             \* the values returned by the calls made so far, in order

vars == <<cli, fs, pc, rootIdx, walk, writer, reads, all_files, shared_results,
          token_counter, progress, locks, workers, claimed, final_results,
          report, pool, content, ops, ret>>

(***************************************************************************)
(* Bounds of the model                                                     *)
(***************************************************************************)
MaxWorkers == 2
MaxLen == 4
MaxOps == 4
MaxCount == 2
MaxPatterns == 2
MaxTokens == 7

(***************************************************************************)
(* Text helpers                                                            *)
(***************************************************************************)
Digits == <<"0", "1", "2", "3", "4", "5", "6", "7", "8", "9">>

RECURSIVE to_string(_)
\* usize::to_string: the decimal digits of n
to_string(n) ==
    IF n < 10 THEN <<Digits[n + 1]>>
    ELSE to_string(n \div 10) \o <<Digits[(n % 10) + 1]>>

RECURSIVE Spaces(_)
Spaces(n) == IF n <= 0 THEN <<>> ELSE <<" ">> \o Spaces(n - 1)

\* format!("{:padding$}", i): integers are right-aligned, padded with spaces,
\* and never truncated
PadLeft(s, width) == Spaces(width - Len(s)) \o s

\* str::contains
Contains(s, t) ==
    \E i \in 0..(Len(s) - Len(t)) : SubSeq(s, i + 1, i + Len(t)) = t

\* the grave accent character U+0060 (it cannot be written in a TLA+ string)
BT == "BT"

RECURSIVE Backticks(_)
\* a run of n grave accents
Backticks(n) == IF n = 0 THEN <<>> ELSE <<BT>> \o Backticks(n - 1)

RECURSIVE SplitInclusive(_)
\* str::split_inclusive(newline): the pieces of s, each with its terminator.
\* Computed by halves: the pieces of the two halves, the piece cut by the
\* middle glued together again.
SplitInclusive(s) ==
    IF s = <<>> THEN <<>>
    ELSE IF Len(s) = 1 THEN <<s>>
    ELSE LET m == Len(s) \div 2
             l == SplitInclusive(SubSeq(s, 1, m))
             r == SplitInclusive(SubSeq(s, m + 1, Len(s)))
         IN IF s[m] = "\n" THEN l \o r
            ELSE SubSeq(l, 1, Len(l) - 1) \o <<l[Len(l)] \o r[1]>> \o Tail(r)

\* one piece of str::lines: strip a final "\n", and then a "\r" before it
StripLineEnd(l) ==
    IF l # <<>> /\ l[Len(l)] = "\n"
    THEN LET m == SubSeq(l, 1, Len(l) - 1)
         IN IF m # <<>> /\ m[Len(m)] = "\r" THEN SubSeq(m, 1, Len(m) - 1) ELSE m
    ELSE l

\* str::lines
lines(s) ==
    LET p == SplitInclusive(s)
    IN [i \in 1..Len(p) |-> StripLineEnd(p[i])]

RECURSIVE join(_, _)
\* [String]::join(sep), computed by halves
join(ls, sep) ==
    IF ls = <<>> THEN <<>>
    ELSE IF Len(ls) = 1 THEN ls[1]
    ELSE LET h == Len(ls) \div 2
         IN join(SubSeq(ls, 1, h), sep) \o sep \o join(SubSeq(ls, h + 1, Len(ls)), sep)

(***************************************************************************)
(* formatters/output.rs and formatters/writer.rs                           *)
(***************************************************************************)
\* EXT_TO_LANG: the language tag of an extension, "" when it is not listed
EXT_TO_LANG(ext) ==
    CASE ext = <<"p", "y">> -> "python"
      [] ext = <<"c">> -> "c"
      [] ext = <<"c", "p", "p">> -> "cpp"
      [] ext = <<"h">> -> "c"
      [] ext = <<"h", "p", "p">> -> "cpp"
      [] ext = <<"j", "a", "v", "a">> -> "java"
      [] ext = <<"j", "s">> -> "javascript"
      [] ext = <<"t", "s">> -> "typescript"
      [] ext = <<"h", "t", "m", "l">> -> "html"
      [] ext = <<"c", "s", "s">> -> "css"
      [] ext = <<"x", "m", "l">> -> "xml"
      [] ext = <<"j", "s", "o", "n">> -> "json"
      [] ext = <<"y", "a", "m", "l">> -> "yaml"
      [] ext = <<"y", "m", "l">> -> "yaml"
      [] ext = <<"s", "h">> -> "bash"
      [] ext = <<"r", "b">> -> "ruby"
      [] ext = <<"r", "s">> -> "rust"
      [] ext = <<"g", "o">> -> "go"
      [] ext = <<"m", "d">> -> "markdown"
      [] ext = <<"t", "o", "m", "l">> -> "toml"
      [] OTHER -> ""

\* the line number prefix of line i (0-based) for the given padding
LinePrefix(i, padding) == PadLeft(to_string(i + 1), padding) \o <<" ", " ">>

\* a mutation of add_line_numbers: the index is printed 0-based
add_line_numbers_zero_based(text) ==
    LET ls == lines(text)
        padding == Len(to_string(Len(ls)))
    IN join([i \in 1..Len(ls) |-> PadLeft(to_string(i - 1), padding) \o <<" ", " ">> \o ls[i]],
            <<"\n">>)

\* a mutation of add_line_numbers: a newline that ends the text is kept
add_line_numbers_keeps_terminator(text) ==
    LET ls == lines(text)
        padding == Len(to_string(Len(ls)))
    IN join([i \in 1..Len(ls) |-> LinePrefix(i - 1, padding) \o ls[i]], <<"\n">>)
       \o (IF text # <<>> /\ text[Len(text)] = "\n" THEN <<"\n">> ELSE <<>>)

\* add_line_numbers
add_line_numbers(text) ==
    LET ls == lines(text)
        padding == Len(to_string(Len(ls)))
    IN join([i \in 1..Len(ls) |-> LinePrefix(i - 1, padding) \o ls[i]], <<"\n">>)

\* the content a formatter writes: numbered when line_numbers is set
content_to_write(text, line_numbers) ==
    IF line_numbers THEN add_line_numbers(text) ELSE text

\* One line handed to Writer::write. kind names the literal text of the line;
\* num, path, text and lang are the values formatted into it.
Line(kind, num, path, text, lang) ==
    [kind |-> kind, num |-> num, path |-> path, text |-> text, lang |-> lang]

Literal(kind) == Line(kind, 0, 0, <<>>, "")

\* Writer::new: no line written, document_index 1
WriterNew == [document_index |-> 1, out |-> <<>>]

\* A run of Writer::write calls, one per line of ls. failAt = 0: every write
\* succeeds; failAt = j: the j-th write returns Err and the ? operator leaves
\* the formatter, so that lines j.. are not written.
WriteAll(w, ls, failAt) ==
    IF failAt = 0 \/ failAt > Len(ls)
    THEN [writer |-> [w EXCEPT !.out = w.out \o ls], ok |-> TRUE]
    ELSE [writer |-> [w EXCEPT !.out = w.out \o SubSeq(ls, 1, failAt - 1)], ok |-> FALSE]

\* print_default
print_default(w, path, text, line_numbers, failAt) ==
    WriteAll(w,
             << Line("path", 0, path, <<>>, ""),
                Literal("---"),
                Line("content", 0, 0, content_to_write(text, line_numbers), ""),
                Literal(""),
                Literal("---") >>,
             failAt)

\* the lines of one XML document
XmlLines(w, path, text, line_numbers) ==
    << Line("<document index>", w.document_index, 0, <<>>, ""),
       Line("<source>", 0, path, <<>>, ""),
       Literal("<document_content>"),
       Line("content", 0, 0, content_to_write(text, line_numbers), ""),
       Literal("</document_content>"),
       Literal("</document>") >>

\* a mutation of print_as_xml: the index is not advanced
print_as_xml_no_increment(w, path, text, line_numbers, failAt) ==
    WriteAll(w, XmlLines(w, path, text, line_numbers), failAt)

\* a mutation of print_as_xml: every document is wrapped in its own
\* "<documents>" and "</documents>" lines
print_as_xml_wrapped(w, path, text, line_numbers, failAt) ==
    LET r == WriteAll(w, <<Literal("<documents>")>>
                         \o XmlLines(w, path, text, line_numbers)
                         \o <<Literal("</documents>")>>, failAt)
    IN IF r.ok
       THEN [r EXCEPT !.writer.document_index = w.document_index + 1]
       ELSE r

\* a mutation of print_as_xml: the index is advanced whether or not the
\* writes succeeded
print_as_xml_eager_increment(w, path, text, line_numbers, failAt) ==
    LET r == WriteAll(w, XmlLines(w, path, text, line_numbers), failAt)
    IN [r EXCEPT !.writer.document_index = w.document_index + 1]

\* print_as_xml: document_index is advanced after the sixth write succeeded
print_as_xml(w, path, text, line_numbers, failAt) ==
    LET r == WriteAll(w, XmlLines(w, path, text, line_numbers), failAt)
    IN IF r.ok
       THEN [r EXCEPT !.writer.document_index = w.document_index + 1]
       ELSE r

RECURSIVE FenceLen(_, _)
\* the while loop of print_as_markdown: n grows while the text contains a
\* run of n grave accents
FenceLen(text, n) ==
    IF Contains(text, Backticks(n)) THEN FenceLen(text, n + 1) ELSE n

\* a mutation of backticks: always three
backticks_always_three(text) == Backticks(3)

\* the fence print_as_markdown settles on
backticks(text) == Backticks(FenceLen(text, 3))

\* print_as_markdown; ext is the extension of the path
print_as_markdown(w, path, ext, text, line_numbers, failAt) ==
    WriteAll(w,
             << Line("path", 0, path, <<>>, ""),
                Line("fence", 0, 0, backticks(text), EXT_TO_LANG(ext)),
                Line("content", 0, 0, content_to_write(text, line_numbers), ""),
                Line("fence", 0, 0, backticks(text), "") >>,
             failAt)

\* print_path: dispatch on the output format
print_path(w, path, ext, text, format, line_numbers, failAt) ==
    CASE format = "Cxml" -> print_as_xml(w, path, text, line_numbers, failAt)
      [] format = "Markdown" -> print_as_markdown(w, path, ext, text, line_numbers, failAt)
      [] OTHER -> print_default(w, path, text, line_numbers, failAt)

\* the number of Writer::write calls print_path makes for the format
WritesPerDocument(format) ==
    CASE format = "Cxml" -> 6
      [] format = "Markdown" -> 4
      [] OTHER -> 5

(***************************************************************************)
(* The file tree the program runs on. Entry i is node i; parent 0 is the   *)
(* working directory. kind "broken" is a symbolic link whose target is     *)
(* missing; utf8 tells whether read_to_string can decode the file;         *)
(* gitignored tells whether a .gitignore rule of the tree matches it.      *)
(***************************************************************************)
Dir(name, parent) ==
    [name |-> name, parent |-> parent, kind |-> "dir", text |-> <<>>,
     utf8 |-> FALSE, gitignored |-> FALSE]

File(name, parent, text) ==
    [name |-> name, parent |-> parent, kind |-> "file", text |-> text,
     utf8 |-> TRUE, gitignored |-> FALSE]

Tree ==
    << Dir(<<"p", "r", "o", "j">>, 0),                                   \* 1  proj
       File(<<"a", ".", "p", "y">>, 1, <<"x", "\n", "y">>),              \* 2  proj/a.py
       Dir(<<".", "h", "i", "d", "d", "e", "n">>, 1),                    \* 3  proj/.hidden
       File(<<"b", ".", "t", "x", "t">>, 3, <<BT, BT, BT, "\n">>),       \* 4  proj/.hidden/b.txt
       Dir(<<".", "g", "i", "t">>, 1),                                   \* 5  proj/.git
       File(<<"c", "o", "n", "f", "i", "g">>, 5, <<"c">>),               \* 6  proj/.git/config
       File(<<"o", "u", "t", ".", "l", "o", "g">>, 1, <<"l", "\n">>),    \* 7  proj/out.log
       [File(<<"b", "i", "n", ".", "d", "a", "t">>, 1, <<>>)
            EXCEPT !.utf8 = FALSE],                                      \* 8  proj/bin.dat
       Dir(<<"n", "o", "d", "e", "_", "m", "o", "d", "u", "l", "e", "s">>, 1), \* 9
       File(<<"m", ".", "j", "s">>, 9, <<"m", " ", "m">>),               \* 10 proj/node_modules/m.js
       File(<<".", "e", "n", "v">>, 1, <<"e">>),                         \* 11 proj/.env
       [File(<<"b", ".", "t", "m", "p">>, 1, <<"t">>)
            EXCEPT !.gitignored = TRUE],                                 \* 12 proj/b.tmp
       [Dir(<<"d", "e", "a", "d">>, 1) EXCEPT !.kind = "broken"],        \* 13 proj/dead
       Dir(<<".", "s", "v", "n">>, 1),                                   \* 14 proj/.svn
       File(<<"e", ".", "P", "Y">>, 14, <<"s">>) >>                      \* 15 proj/.svn/e.PY

NodeIds == 1..Len(Tree)

\* a path that names nothing on disk
Missing == 0

\* Path::is_file, Path::is_dir (both follow links and are false on error)
is_file(n) == n \in NodeIds /\ Tree[n].kind = "file"
is_dir(n) == n \in NodeIds /\ Tree[n].kind = "dir"

\* Path::file_name
file_name(n) == IF n \in NodeIds THEN Tree[n].name ELSE <<>>

\* the position of the last "." of a name, 0 when it has none
LastDot(name) ==
    LET dots == {i \in 1..Len(name) : name[i] = "."}
    IN IF dots = {} THEN 0 ELSE CHOOSE i \in dots : \A j \in dots : j <= i

\* path.extension().and_then(|ext| ext.to_str()).unwrap_or(""): the text after
\* the last dot; none (hence "") without a dot, or when the only dot leads
\* the name
extension(n) ==
    LET name == file_name(n)
        d == LastDot(name)
    IN IF d <= 1 THEN <<>> ELSE SubSeq(name, d + 1, Len(name))

\* std::fs::read_to_string succeeds on a regular file that decodes as UTF-8
readable(n) == is_file(n) /\ Tree[n].utf8

\* the entries of a directory, in the order the host lists them
Reverse(q) == [i \in 1..Len(q) |-> q[Len(q) + 1 - i]]

RECURSIVE ChildrenFrom(_, _)
ChildrenFrom(d, i) ==
    IF i > Len(Tree) THEN <<>>
    ELSE (IF Tree[i].parent = d THEN <<i>> ELSE <<>>) \o ChildrenFrom(d, i + 1)

read_dir(d, order) ==
    IF order = "rev" THEN Reverse(ChildrenFrom(d, 1)) ELSE ChildrenFrom(d, 1)

\* is a an ancestor directory of n (a proper one)
RECURSIVE IsUnder(_, _)
IsUnder(n, a) ==
    n \in NodeIds /\ Tree[n].parent # 0
    /\ (Tree[n].parent = a \/ IsUnder(Tree[n].parent, a))

(***************************************************************************)
(* utils/file_helper.rs                                                    *)
(***************************************************************************)
\* Glob::new accepts the pattern: every "[" is closed by a later "]", braces
\* are balanced, and the pattern does not end in a lone escape
GlobValid(p) ==
    /\ \A i \in 1..Len(p) : p[i] = "[" => \E j \in (i + 1)..Len(p) : p[j] = "]"
    /\ \A i \in 1..Len(p) : p[i] = "{" => \E j \in (i + 1)..Len(p) : p[j] = "}"
    /\ \A i \in 1..Len(p) : p[i] = "}" => \E j \in 1..(i - 1) : p[j] = "{"
    /\ (p = <<>> \/ p[Len(p)] # "\\")

RECURSIVE GlobMatch(_, _)
\* a glob of literals, "*" and "?" against a whole candidate (globset's
\* default options: "*" also crosses separators)
GlobMatch(p, s) ==
    IF p = <<>> THEN s = <<>>
    ELSE IF Head(p) = "*"
         THEN GlobMatch(Tail(p), s) \/ (s # <<>> /\ GlobMatch(p, Tail(s)))
    ELSE IF Head(p) = "?"
         THEN s # <<>> /\ GlobMatch(Tail(p), Tail(s))
    ELSE s # <<>> /\ Head(s) = Head(p) /\ GlobMatch(Tail(p), Tail(s))

\* build_globset: Err as soon as one pattern is rejected
build_globset(patterns) ==
    [ok |-> \A i \in 1..Len(patterns) : GlobValid(patterns[i]),
     globs |-> patterns]

\* GlobSet::is_match
is_match(globset, s) ==
    \E i \in 1..Len(globset.globs) : GlobMatch(globset.globs[i], s)

\* a mutation of should_ignore: a rejected pattern excludes every path
should_ignore_strict(n, ignore_patterns, ignore_files_only) ==
    IF ignore_patterns = <<>> THEN FALSE
    ELSE LET globset == build_globset(ignore_patterns)
         IN IF ~globset.ok THEN TRUE
            ELSE IF is_match(globset, file_name(n)) THEN TRUE
            ELSE ~ignore_files_only /\ is_dir(n)
                 /\ is_match(globset, file_name(n) \o <<"/">>)

\* a mutation of should_ignore: the name with a trailing separator is tested
\* whether or not the path is a directory
should_ignore_any_kind(n, ignore_patterns, ignore_files_only) ==
    IF ignore_patterns = <<>> THEN FALSE
    ELSE LET globset == build_globset(ignore_patterns)
         IN IF ~globset.ok THEN FALSE
            ELSE IF is_match(globset, file_name(n)) THEN TRUE
            ELSE ~ignore_files_only /\ is_match(globset, file_name(n) \o <<"/">>)

\* should_ignore
should_ignore(n, ignore_patterns, ignore_files_only) ==
    IF ignore_patterns = <<>> THEN FALSE
    ELSE LET globset == build_globset(ignore_patterns)
         IN IF ~globset.ok THEN FALSE
            ELSE IF is_match(globset, file_name(n)) THEN TRUE
            ELSE ~ignore_files_only /\ is_dir(n)
                 /\ is_match(globset, file_name(n) \o <<"/">>)

(***************************************************************************)
(* The walker built by process_path and by process_token_count             *)
(***************************************************************************)
\* the three names the filter_entry closure compares with
IsVcsName(name) ==
    \/ name = <<".", "g", "i", "t">>
    \/ name = <<".", "s", "v", "n">>
    \/ name = <<".", "h", "g">>

\* the filter_entry closure: FALSE prunes the entry
filter_entry(n) ==
    IF IsVcsName(file_name(n)) THEN ~is_dir(n) ELSE TRUE

\* process_path installs the closure under this condition
FilterInstalledContent(c) == c.exclude_vcs /\ ~c.include_vcs /\ c.ignore_gitignore

\* process_token_count installs the closure under this condition
FilterInstalledCount(c) == c.exclude_vcs /\ ~c.include_vcs /\ ~c.ignore_gitignore

FilterInstalled(c) ==
    IF c.count_tokens THEN FilterInstalledCount(c) ELSE FilterInstalledContent(c)

\* a mutation of hidden_skips: the hidden-file filter is never installed
hidden_skips_never(c, n) == FALSE

\* builder.hidden(!include_hidden): a name with a leading dot is skipped
hidden_skips(c, n) == ~c.include_hidden /\ file_name(n) # <<>> /\ file_name(n)[1] = "."

\* builder.git_ignore(!ignore_gitignore): .gitignore rules are applied
gitignore_skips(c, n) == ~c.ignore_gitignore /\ Tree[n].gitignored

\* The walker never hands out an entry below the root that one of its
\* filters skips, and does not descend into it; an entry it cannot stat is
\* handed out as an error before any filter is asked.
skip_entry(c, n) ==
    /\ Tree[n].kind # "broken"
    /\ \/ hidden_skips(c, n)
       \/ gitignore_skips(c, n)
       \/ (FilterInstalled(c) /\ ~filter_entry(n))

\* the entries of directory d the walker will hand out, in host order
walk_children(c, order, d) ==
    SelectSeq(read_dir(d, order), LAMBDA n : ~skip_entry(c, n))

(***************************************************************************)
(* models/token_report.rs and tokenizers/mod.rs                            *)
(***************************************************************************)
\* HashMap::new and HashMap::insert; a map is a function on its keys
EmptyMap == [k \in {} |-> 0]
MapInsert(m, k, v) == (k :> v) @@ m

\* TokenReport::new
TokenReportNew == [file_tokens |-> EmptyMap, total_tokens |-> 0, duration_ms |-> 0]

\* a mutation of add_file: the total is not advanced
add_file_no_total(r, path, token_count) ==
    [r EXCEPT !.file_tokens = MapInsert(r.file_tokens, path, token_count)]

\* TokenReport::add_file
add_file(r, path, token_count) ==
    [r EXCEPT !.file_tokens = MapInsert(r.file_tokens, path, token_count),
              !.total_tokens = r.total_tokens + token_count]

\* TokenReport::set_duration
set_duration(r, duration_ms) == [r EXCEPT !.duration_ms = duration_ms]

TokenizerModels ==
    {"Gemini15Pro", "Gemini15Flash", "Gemini20Flash", "Gemini20FlashLite",
     "Gemini20Pro", "Gemini20ProExp", "Gemini20ProExp0205",
     "Gemini20FlashThinkingExp", "Gpt35Turbo", "Gpt4", "Gpt4Turbo",
     "Claude3Sonnet", "Claude3Opus"}

\* a mutation of get_tokenizer_name: the Claude models are given a family
\* of their own
get_tokenizer_name_claude(model) ==
    IF model \in {"Claude3Sonnet", "Claude3Opus"} THEN "claude" ELSE "cl100k_base"

\* get_tokenizer_name
get_tokenizer_name(model) ==
    IF model \in {"Claude3Sonnet", "Claude3Opus"} THEN "p50k_base" ELSE "cl100k_base"

\* count_tokens: the length of the encoding of the text. The byte pair
\* encoder is a library; here every character is one token in both families.
count_tokens(text, model) ==
    CASE get_tokenizer_name(model) = "cl100k_base" -> Len(text)
      [] get_tokenizer_name(model) = "p50k_base" -> Len(text)
      [] OTHER -> Len(text)

\* the arm of the match in count_tokens that is taken: one of the two
\* families, or "_" for the fallback arm
count_tokens_arm(model) ==
    CASE get_tokenizer_name(model) = "cl100k_base" -> "cl100k_base"
      [] get_tokenizer_name(model) = "p50k_base" -> "p50k_base"
      [] OTHER -> "_"

\* get_token_cost: the price of 1000 input and of 1000 output tokens, here
\* in ten-thousandths of a dollar; the token count argument is not used
get_token_cost(model, tokens) ==
    CASE model = "Gpt35Turbo" -> [input |-> 10, output |-> 20]
      [] model = "Gpt4" -> [input |-> 300, output |-> 600]
      [] model = "Gpt4Turbo" -> [input |-> 100, output |-> 300]
      [] model = "Claude3Sonnet" -> [input |-> 30, output |-> 150]
      [] model = "Claude3Opus" -> [input |-> 150, output |-> 750]
      [] OTHER -> [input |-> 0, output |-> 0]

\* a mutation of estimated_output_tokens: the product is cut, not rounded
estimated_output_tokens_cut(total_tokens) == (2 * total_tokens) \div 10

\* (report.total_tokens as f64 * 0.2).round() as usize: round moves a half
\* away from zero
estimated_output_tokens(total_tokens) == (2 * total_tokens + 5) \div 10

\* the record of one more read_to_string call on path n
read_attempt(rd, n) ==
    MapInsert(rd, n, IF n \in DOMAIN rd THEN rd[n] + 1 ELSE 1)

(***************************************************************************)
(* The runs the model starts from                                          *)
(***************************************************************************)
PatLog == <<"*", ".", "l", "o", "g">>
PatNodeModules == <<"n", "o", "d", "e", "_", "m", "o", "d", "u", "l", "e", "s", "/">>
PatUnclosed == <<"[">>

IgnoreLists == { <<>>, <<PatLog, PatNodeModules>>, <<PatLog, PatUnclosed>> }
ExtensionLists == { <<>>, << <<"p", "y">> >> }
Formats == {"Default", "Cxml", "Markdown"}

\* root lists: the tree; a file and the tree that holds it; a hidden file and
\* a file an ignore pattern matches; a file under .git and an undecodable
\* file; the .git directory itself; a missing path and a hidden directory
RootLists == { <<1>>, <<2, 1>>, <<11, 7>>, <<6, 8>>, <<5>>, <<Missing, 3>> }

\* runs that vary the filters, on a host with one core
FilterRuns ==
    {c \in [paths : RootLists, extensions : ExtensionLists,
            include_hidden : BOOLEAN, ignore_files_only : BOOLEAN,
            ignore_gitignore : BOOLEAN, exclude_vcs : BOOLEAN,
            include_vcs : BOOLEAN, ignore_patterns : IgnoreLists,
            output_format : Formats, line_numbers : {FALSE},
            count_tokens : BOOLEAN, tokenizer_model : {"Gemini15Flash"},
            num_threads : {0}] :
        c.count_tokens => c.output_format = "Default"}

\* content runs with line numbers, with the default filters
NumberedRuns ==
    [paths : { <<1>>, <<2, 1>> }, extensions : { <<>> },
     include_hidden : BOOLEAN, ignore_files_only : {FALSE},
     ignore_gitignore : {FALSE}, exclude_vcs : {TRUE},
     include_vcs : {FALSE}, ignore_patterns : { <<>> },
     output_format : Formats, line_numbers : {TRUE},
     count_tokens : {FALSE}, tokenizer_model : {"Gemini15Flash"},
     num_threads : {0}]

\* counting runs that vary the pool, with the default filters
PoolRuns ==
    [paths : { <<1>>, <<2, 2>>, <<2, 8, 1>> }, extensions : { <<>> },
     include_hidden : {FALSE}, ignore_files_only : {FALSE},
     ignore_gitignore : {FALSE}, exclude_vcs : {TRUE},
     include_vcs : {FALSE}, ignore_patterns : { <<>>, <<PatLog>> },
     output_format : {"Default"}, line_numbers : {FALSE},
     count_tokens : {TRUE}, tokenizer_model : {"Gemini15Flash", "Claude3Opus"},
     num_threads : 0..MaxWorkers]

\* runs over roots that overlap: the tree given twice, and the tree together
\* with its sub-directory node_modules; the default filters
OverlapRuns ==
    [paths : { <<1, 1>>, <<1, 9>> }, extensions : { <<>> },
     include_hidden : {FALSE}, ignore_files_only : {FALSE},
     ignore_gitignore : {FALSE}, exclude_vcs : {TRUE},
     include_vcs : {FALSE}, ignore_patterns : { <<>> },
     output_format : {"Default"}, line_numbers : {FALSE},
     count_tokens : BOOLEAN, tokenizer_model : {"Gemini15Flash"},
     num_threads : {0}]

\* extension lists for the runs below: the empty extension, the text after
\* the dot of .env, an upper-case extension, two extensions
ExtensionCases ==
    { << <<>> >>, << <<"e", "n", "v">> >>, << <<"P", "Y">> >>,
      << <<"p", "y">>, <<"l", "o", "g">> >> }

\* runs over the whole tree, hidden entries and VCS directories included,
\* that vary the extension list
ExtensionRuns ==
    [paths : { <<1>> }, extensions : ExtensionCases,
     include_hidden : {TRUE}, ignore_files_only : {FALSE},
     ignore_gitignore : {FALSE}, exclude_vcs : {FALSE},
     include_vcs : {FALSE}, ignore_patterns : { <<>> },
     output_format : {"Default"}, line_numbers : {FALSE},
     count_tokens : BOOLEAN, tokenizer_model : {"Gemini15Flash"},
     num_threads : {0}]

Idle == [item |-> 0, pc |-> "idle", count |-> 0]

\* everything but the command line, the host and the global pool
InitShared ==
    /\ pc = "start"
    /\ rootIdx = 0
    /\ walk = <<>>
    /\ writer = WriterNew
    /\ reads = EmptyMap
    /\ all_files = <<>>
    /\ shared_results = EmptyMap
    /\ token_counter = 0
    /\ progress = 0
    /\ locks = [results |-> 0, counter |-> 0]
    /\ workers = [w \in 1..MaxWorkers |-> Idle]
    /\ claimed = {}
    /\ final_results = <<>>
    /\ report = TokenReportNew
    /\ content = <<>>
    /\ ops = 0
    /\ ret = <<>>

\* a process that has not touched the global pool: pool 0
InitRest == InitShared /\ pool = 0

\* counting runs of a process whose global pool was built before, by an
\* earlier call, with any size
LaterRuns ==
    [paths : { <<2, 8, 1>> }, extensions : { <<>> },
     include_hidden : {FALSE}, ignore_files_only : {FALSE},
     ignore_gitignore : {FALSE}, exclude_vcs : {TRUE},
     include_vcs : {FALSE}, ignore_patterns : { <<>> },
     output_format : {"Default"}, line_numbers : {FALSE},
     count_tokens : {TRUE}, tokenizer_model : {"Gemini15Flash"},
     num_threads : 0..MaxWorkers]

Init ==
    \/ /\ \/ cli \in FilterRuns \cup NumberedRuns \cup OverlapRuns \cup ExtensionRuns
             /\ fs \in [order : {"fwd", "rev"}, cores : {1}]
          \/ cli \in PoolRuns /\ fs \in [order : {"fwd"}, cores : {MaxWorkers}]
       /\ InitRest
    \/ /\ cli \in LaterRuns /\ fs \in [order : {"fwd"}, cores : {MaxWorkers}]
       /\ pool \in 1..MaxWorkers
       /\ InitShared

countVars == <<all_files, shared_results, token_counter, progress, locks,
               workers, claimed, final_results, report, pool>>
auxVars == <<content, ops, ret>>

(***************************************************************************)
(* Content aggregation: collect_file_contents and process_path             *)
(***************************************************************************)
\* a mutation of extension_allowed: letters are compared without their case
extension_allowed_caseless(c, n) ==
    LET lower(ch) == CASE ch = "P" -> "p" [] ch = "Y" -> "y" [] OTHER -> ch
        fold(t) == [i \in 1..Len(t) |-> lower(t[i])]
    IN c.extensions = <<>>
       \/ \E i \in 1..Len(c.extensions) : fold(c.extensions[i]) = fold(extension(n))

\* the extension check of the walk loop
extension_allowed(c, n) ==
    c.extensions = <<>> \/ \E i \in 1..Len(c.extensions) : c.extensions[i] = extension(n)

\* what the walk loop does with one result of the walker: "error" and
\* "skip" continue with the next entry, "file" goes on to the file
classify(c, n) ==
    IF n \notin NodeIds \/ Tree[n].kind = "broken" THEN "error"
    ELSE IF ~is_file(n) THEN "skip"
    ELSE IF should_ignore(n, c.ignore_patterns, c.ignore_files_only) THEN "skip"
    ELSE IF ~extension_allowed(c, n) THEN "skip"
    ELSE "file"

\* the walker's stack once entry Head(stack) was handed out
walk_advance(c, order, stack) ==
    IF is_dir(Head(stack))
    THEN walk_children(c, order, Head(stack)) \o Tail(stack)
    ELSE Tail(stack)

\* a mutation of read_and_print: a failed read is returned as an error
read_and_print_fatal(w, n, c, failAt) ==
    IF readable(n)
    THEN print_path(w, n, extension(n), Tree[n].text, c.output_format,
                    c.line_numbers, failAt)
    ELSE [writer |-> w, ok |-> FALSE]

\* read_to_string, then print_path when the read succeeded
read_and_print(w, n, c, failAt) ==
    IF readable(n)
    THEN print_path(w, n, extension(n), Tree[n].text, c.output_format,
                    c.line_numbers, failAt)
    ELSE [writer |-> w, ok |-> TRUE]

\* the write of print_path that fails, 0 for none
FailChoices(c, n) ==
    IF readable(n) THEN 0..WritesPerDocument(c.output_format) ELSE {0}

\* the "<documents>" and "</documents>" lines collect_file_contents writes
wrap_line(w, c, kind, failAt) ==
    IF c.output_format = "Cxml"
    THEN WriteAll(w, <<Literal(kind)>>, failAt)
    ELSE [writer |-> w, ok |-> TRUE]

WrapFailChoices(c) == IF c.output_format = "Cxml" THEN {0, 1} ELSE {0}

\* collect_file_contents up to its loop
CollectStart ==
    /\ pc = "start" /\ ~cli.count_tokens
    /\ \E failAt \in WrapFailChoices(cli) :
          LET r == wrap_line(WriterNew, cli, "<documents>", failAt)
          IN /\ writer' = r.writer
             /\ pc' = IF r.ok THEN "roots" ELSE "failed"
    /\ rootIdx' = 1
    /\ UNCHANGED <<cli, fs, walk, reads, countVars, auxVars>>

\* a mutation of ProcessFileRoot: the root goes through the checks of the
\* walk loop and the hidden-file policy before it is read
ProcessFileRootFiltered ==
    /\ pc = "roots" /\ ~cli.count_tokens /\ rootIdx <= Len(cli.paths)
    /\ is_file(cli.paths[rootIdx])
    /\ IF classify(cli, cli.paths[rootIdx]) = "file"
          /\ ~(~cli.include_hidden /\ file_name(cli.paths[rootIdx])[1] = ".")
       THEN /\ reads' = read_attempt(reads, cli.paths[rootIdx])
            /\ \E failAt \in FailChoices(cli, cli.paths[rootIdx]) :
                  LET r == read_and_print(writer, cli.paths[rootIdx], cli, failAt)
                  IN /\ writer' = r.writer
                     /\ pc' = IF r.ok THEN "roots" ELSE "failed"
                     /\ rootIdx' = IF r.ok THEN rootIdx + 1 ELSE rootIdx
       ELSE /\ rootIdx' = rootIdx + 1
            /\ UNCHANGED <<reads, writer, pc>>
    /\ UNCHANGED <<cli, fs, walk, countVars, auxVars>>

\* process_path on a root that is a regular file
ProcessFileRoot ==
    /\ pc = "roots" /\ ~cli.count_tokens /\ rootIdx <= Len(cli.paths)
    /\ is_file(cli.paths[rootIdx])
    /\ reads' = read_attempt(reads, cli.paths[rootIdx])
    /\ \E failAt \in FailChoices(cli, cli.paths[rootIdx]) :
          LET r == read_and_print(writer, cli.paths[rootIdx], cli, failAt)
          IN /\ writer' = r.writer
             /\ pc' = IF r.ok THEN "roots" ELSE "failed"
             /\ rootIdx' = IF r.ok THEN rootIdx + 1 ELSE rootIdx
    /\ UNCHANGED <<cli, fs, walk, countVars, auxVars>>

\* process_path on any other root: the walker is built
ProcessDirRoot ==
    /\ pc = "roots" /\ ~cli.count_tokens /\ rootIdx <= Len(cli.paths)
    /\ ~is_file(cli.paths[rootIdx])
    /\ walk' = <<cli.paths[rootIdx]>>
    /\ pc' = "walk"
    /\ UNCHANGED <<cli, fs, rootIdx, writer, reads, countVars, auxVars>>

\* one iteration of the walk loop of process_path
WalkEntry ==
    /\ pc = "walk" /\ ~cli.count_tokens /\ walk # <<>>
    /\ walk' = walk_advance(cli, fs.order, walk)
    /\ IF classify(cli, Head(walk)) = "file"
       THEN /\ reads' = read_attempt(reads, Head(walk))
            /\ \E failAt \in FailChoices(cli, Head(walk)) :
                  LET r == read_and_print(writer, Head(walk), cli, failAt)
                  IN /\ writer' = r.writer
                     /\ pc' = IF r.ok THEN "walk" ELSE "failed"
       ELSE UNCHANGED <<reads, writer, pc>>
    /\ UNCHANGED <<cli, fs, rootIdx, countVars, auxVars>>

\* the walker is exhausted: process_path returns Ok
WalkEnd ==
    /\ pc = "walk" /\ ~cli.count_tokens /\ walk = <<>>
    /\ pc' = "roots"
    /\ rootIdx' = rootIdx + 1
    /\ UNCHANGED <<cli, fs, walk, writer, reads, countVars, auxVars>>

\* collect_file_contents after its loop
CollectFinish ==
    /\ pc = "roots" /\ ~cli.count_tokens /\ rootIdx > Len(cli.paths)
    /\ \E failAt \in WrapFailChoices(cli) :
          LET r == wrap_line(writer, cli, "</documents>", failAt)
          IN /\ writer' = r.writer
             /\ pc' = IF r.ok THEN "done" ELSE "failed"
    /\ UNCHANGED <<cli, fs, rootIdx, walk, reads, countVars, auxVars>>

(***************************************************************************)
(* Token counting: process_token_count                                     *)
(***************************************************************************)
walkVars == <<writer, content, ops, ret>>

\* a mutation of build_global: a pool that exists is replaced
build_global_replaces(p, num_threads) == [ok |-> TRUE, pool |-> num_threads]

\* ThreadPoolBuilder::build_global on a process whose global pool is p
\* (0: not built yet): Err when the pool exists, and the pool stays
build_global(p, num_threads) ==
    IF p = 0 THEN [ok |-> TRUE, pool |-> num_threads]
    ELSE [ok |-> FALSE, pool |-> p]

\* TokenReport::new, the pool configuration, the empty shared collections.
\* The Err of build_global is printed as a warning and the run goes on.
CountStart ==
    /\ pc = "start" /\ cli.count_tokens
    /\ report' = TokenReportNew
    /\ IF cli.num_threads > 0
       THEN LET r == build_global(pool, cli.num_threads)
            IN /\ pool' = r.pool
               /\ ret' = Append(ret, [fn |-> "build_global", ok |-> r.ok])
       ELSE UNCHANGED <<pool, ret>>
    /\ shared_results' = EmptyMap
    /\ all_files' = <<>>
    /\ rootIdx' = 1
    /\ pc' = "discover"
    /\ UNCHANGED <<cli, fs, walk, reads, token_counter, progress, locks,
                   workers, claimed, final_results, writer, content, ops>>

\* discovery: a root that is a regular file is pushed as it is
DiscoverFileRoot ==
    /\ pc = "discover" /\ rootIdx <= Len(cli.paths)
    /\ is_file(cli.paths[rootIdx])
    /\ all_files' = Append(all_files, cli.paths[rootIdx])
    /\ rootIdx' = rootIdx + 1
    /\ UNCHANGED <<cli, fs, pc, walk, reads, shared_results, token_counter,
                   progress, locks, workers, claimed, final_results, report,
                   pool, walkVars>>

\* discovery: the walker is built for any other root
DiscoverDirRoot ==
    /\ pc = "discover" /\ rootIdx <= Len(cli.paths)
    /\ ~is_file(cli.paths[rootIdx])
    /\ walk' = <<cli.paths[rootIdx]>>
    /\ pc' = "discover_walk"
    /\ UNCHANGED <<cli, fs, rootIdx, reads, countVars, walkVars>>

\* discovery: one iteration of the walk loop
DiscoverEntry ==
    /\ pc = "discover_walk" /\ walk # <<>>
    /\ walk' = walk_advance(cli, fs.order, walk)
    /\ all_files' = IF classify(cli, Head(walk)) = "file"
                    THEN Append(all_files, Head(walk))
                    ELSE all_files
    /\ UNCHANGED <<cli, fs, pc, rootIdx, reads, shared_results, token_counter,
                   progress, locks, workers, claimed, final_results, report,
                   pool, walkVars>>

\* discovery: the walker of this root is exhausted
DiscoverWalkEnd ==
    /\ pc = "discover_walk" /\ walk = <<>>
    /\ pc' = "discover"
    /\ rootIdx' = rootIdx + 1
    /\ UNCHANGED <<cli, fs, walk, reads, countVars, walkVars>>

\* every root was walked: the progress bar and the counter are created and
\* the list is handed to the pool, which is built now if it was not yet
DiscoverFinish ==
    /\ pc = "discover" /\ rootIdx > Len(cli.paths)
    /\ token_counter' = 0
    /\ progress' = 0
    /\ pool' = IF pool = 0 THEN fs.cores ELSE pool
    /\ pc' = "counting"
    /\ UNCHANGED <<cli, fs, rootIdx, walk, reads, all_files, shared_results,
                   locks, workers, claimed, final_results, report, walkVars>>

Unclaimed == (1..Len(all_files)) \ claimed

\* a mutation of WorkerClaim: an item whose file cannot be read stays in
\* the list, to be taken again
WorkerClaimRetry(w) ==
    /\ pc = "counting" /\ w <= pool /\ workers[w].pc = "idle"
    /\ \E i \in Unclaimed :
          /\ pool = 1 => \A j \in Unclaimed : i <= j
          /\ claimed' = IF readable(all_files[i]) THEN claimed \cup {i} ELSE claimed
          /\ workers' = [workers EXCEPT ![w] = [item |-> i, pc |-> "read", count |-> 0]]
    /\ UNCHANGED <<cli, fs, pc, rootIdx, walk, reads, all_files, shared_results,
                   token_counter, progress, locks, final_results, report, pool,
                   walkVars>>

\* A pool thread takes an item of the list. A pool of one thread runs the
\* items in list order; with more threads work is stolen, in any order.
WorkerClaim(w) ==
    /\ pc = "counting" /\ w <= pool /\ workers[w].pc = "idle"
    /\ \E i \in Unclaimed :
          /\ pool = 1 => \A j \in Unclaimed : i <= j
          /\ claimed' = claimed \cup {i}
          /\ workers' = [workers EXCEPT ![w] = [item |-> i, pc |-> "read", count |-> 0]]
    /\ UNCHANGED <<cli, fs, pc, rootIdx, walk, reads, all_files, shared_results,
                   token_counter, progress, locks, final_results, report, pool,
                   walkVars>>

\* a mutation of WorkerRead: a failed read leaves the closure at once,
\* without the progress.inc of the Err arm
WorkerReadNoInc(w) ==
    /\ pc = "counting" /\ workers[w].pc = "read"
    /\ LET file_path == all_files[workers[w].item]
       IN /\ reads' = read_attempt(reads, file_path)
          /\ workers' = [workers EXCEPT ![w] =
                IF readable(file_path)
                THEN [@ EXCEPT !.pc = "lock_results",
                               !.count = count_tokens(Tree[file_path].text,
                                                      cli.tokenizer_model)]
                ELSE Idle]
    /\ UNCHANGED <<cli, fs, pc, rootIdx, walk, all_files, shared_results,
                   token_counter, progress, locks, claimed, final_results,
                   report, pool, walkVars>>

\* read_to_string and count_tokens, both local to the worker
WorkerRead(w) ==
    /\ pc = "counting" /\ workers[w].pc = "read"
    /\ LET file_path == all_files[workers[w].item]
       IN /\ reads' = read_attempt(reads, file_path)
          /\ workers' = [workers EXCEPT ![w] =
                IF readable(file_path)
                THEN [@ EXCEPT !.pc = "lock_results",
                               !.count = count_tokens(Tree[file_path].text,
                                                      cli.tokenizer_model)]
                ELSE [@ EXCEPT !.pc = "inc"]]
    /\ UNCHANGED <<cli, fs, pc, rootIdx, walk, all_files, shared_results,
                   token_counter, progress, locks, claimed, final_results,
                   report, pool, walkVars>>

\* shared_results.lock()
WorkerLockResults(w) ==
    /\ pc = "counting" /\ workers[w].pc = "lock_results"
    /\ locks.results = 0
    /\ locks' = [locks EXCEPT !.results = w]
    /\ workers' = [workers EXCEPT ![w].pc = "insert"]
    /\ UNCHANGED <<cli, fs, pc, rootIdx, walk, reads, all_files, shared_results,
                   token_counter, progress, claimed, final_results, report,
                   pool, walkVars>>

\* a mutation of results_insert: the map is replaced by the one new entry
results_insert_replace(results, file_path, token_count) ==
    MapInsert(EmptyMap, file_path, token_count)

\* results.insert(file_path.clone(), token_count)
results_insert(results, file_path, token_count) ==
    MapInsert(results, file_path, token_count)

\* a mutation of WorkerInsert: after the insert the closure goes straight
\* to progress.inc, past the update of the counter
WorkerInsertSkipsAdd(w) ==
    /\ pc = "counting" /\ workers[w].pc = "insert"
    /\ locks.results = w
    /\ shared_results' = results_insert(shared_results,
                                        all_files[workers[w].item], workers[w].count)
    /\ locks' = [locks EXCEPT !.results = 0]
    /\ workers' = [workers EXCEPT ![w].pc = "inc"]
    /\ UNCHANGED <<cli, fs, pc, rootIdx, walk, reads, all_files, token_counter,
                   progress, claimed, final_results, report, pool, walkVars>>

\* the insert, and the guard dropped at the end of the block
WorkerInsert(w) ==
    /\ pc = "counting" /\ workers[w].pc = "insert"
    /\ locks.results = w
    /\ shared_results' = results_insert(shared_results,
                                        all_files[workers[w].item], workers[w].count)
    /\ locks' = [locks EXCEPT !.results = 0]
    /\ workers' = [workers EXCEPT ![w].pc = "lock_counter"]
    /\ UNCHANGED <<cli, fs, pc, rootIdx, walk, reads, all_files, token_counter,
                   progress, claimed, final_results, report, pool, walkVars>>

\* a mutation of WorkerLockCounter: the worker goes on without waiting for
\* the mutex to be free
WorkerLockCounterNoWait(w) ==
    /\ pc = "counting" /\ workers[w].pc = "lock_counter"
    /\ locks' = [locks EXCEPT !.counter = w]
    /\ workers' = [workers EXCEPT ![w].pc = "add"]
    /\ UNCHANGED <<cli, fs, pc, rootIdx, walk, reads, all_files, shared_results,
                   token_counter, progress, claimed, final_results, report,
                   pool, walkVars>>

\* token_counter.lock()
WorkerLockCounter(w) ==
    /\ pc = "counting" /\ workers[w].pc = "lock_counter"
    /\ locks.counter = 0
    /\ locks' = [locks EXCEPT !.counter = w]
    /\ workers' = [workers EXCEPT ![w].pc = "add"]
    /\ UNCHANGED <<cli, fs, pc, rootIdx, walk, reads, all_files, shared_results,
                   token_counter, progress, claimed, final_results, report,
                   pool, walkVars>>

\* *counter += token_count, the progress message, the guard dropped
WorkerAdd(w) ==
    /\ pc = "counting" /\ workers[w].pc = "add"
    /\ locks.counter = w
    /\ token_counter' = token_counter + workers[w].count
    /\ locks' = [locks EXCEPT !.counter = 0]
    /\ workers' = [workers EXCEPT ![w].pc = "inc"]
    /\ UNCHANGED <<cli, fs, pc, rootIdx, walk, reads, all_files, shared_results,
                   progress, claimed, final_results, report, pool, walkVars>>

\* progress.inc(1), on either branch of the match; the closure returns
WorkerInc(w) ==
    /\ pc = "counting" /\ workers[w].pc = "inc"
    /\ progress' = progress + 1
    /\ workers' = [workers EXCEPT ![w] = Idle]
    /\ UNCHANGED <<cli, fs, pc, rootIdx, walk, reads, all_files, shared_results,
                   token_counter, locks, claimed, final_results, report, pool,
                   walkVars>>

\* the keys of a map in ascending order
RECURSIVE SortedKeys(_)
SortedKeys(keys) ==
    IF keys = {} THEN <<>>
    ELSE LET k == CHOOSE x \in keys : \A y \in keys : x <= y
         IN <<k>> \o SortedKeys(keys \ {k})

\* The orders in which the unwrapped HashMap may hand out its entries. The
\* order of a HashMap is unspecified; the model draws it from two orders.
IterationOrders(m) == {SortedKeys(DOMAIN m), Reverse(SortedKeys(DOMAIN m))}

\* a mutation of JoinWorkers: the map is taken and merged as soon as it
\* holds an entry, while items are still unclaimed or in work
JoinWorkersEarly ==
    /\ pc = "counting" /\ (Unclaimed = {} \/ DOMAIN shared_results # {})
    /\ locks.results = 0
    /\ final_results' \in IterationOrders(shared_results)
    /\ pc' = "merge"
    /\ UNCHANGED <<cli, fs, rootIdx, walk, reads, all_files, shared_results,
                   token_counter, progress, locks, workers, claimed, report,
                   pool, walkVars>>

\* for_each returned, so every item was processed and every worker is done:
\* the map is taken out of its Arc and Mutex
JoinWorkers ==
    /\ pc = "counting" /\ Unclaimed = {}
    /\ \A w \in 1..MaxWorkers : workers[w].pc = "idle"
    /\ final_results' \in IterationOrders(shared_results)
    /\ pc' = "merge"
    /\ UNCHANGED <<cli, fs, rootIdx, walk, reads, all_files, shared_results,
                   token_counter, progress, locks, workers, claimed, report,
                   pool, walkVars>>

\* one iteration of the merge loop
MergeEntry ==
    /\ pc = "merge" /\ final_results # <<>>
    /\ report' = add_file(report, Head(final_results),
                          shared_results[Head(final_results)])
    /\ final_results' = Tail(final_results)
    /\ UNCHANGED <<cli, fs, pc, rootIdx, walk, reads, all_files, shared_results,
                   token_counter, progress, locks, workers, claimed, pool,
                   walkVars>>

\* the elapsed time in milliseconds the run may measure
Durations == {0, 1}

\* the merge loop ended: set_duration, then display_token_report
MergeFinish ==
    /\ pc = "merge" /\ final_results = <<>>
    /\ \E d \in Durations : report' = set_duration(report, d)
    /\ pc' = "done"
    /\ UNCHANGED <<cli, fs, rootIdx, walk, reads, all_files, shared_results,
                   token_counter, progress, locks, workers, claimed,
                   final_results, pool, walkVars>>

Next ==
    \/ CollectStart \/ ProcessFileRoot \/ ProcessDirRoot \/ WalkEntry
    \/ WalkEnd \/ CollectFinish
    \/ CountStart \/ DiscoverFileRoot \/ DiscoverDirRoot \/ DiscoverEntry
    \/ DiscoverWalkEnd \/ DiscoverFinish
    \/ \E w \in 1..MaxWorkers :
          \/ WorkerClaim(w) \/ WorkerRead(w) \/ WorkerLockResults(w)
          \/ WorkerInsert(w) \/ WorkerLockCounter(w) \/ WorkerAdd(w)
          \/ WorkerInc(w)
    \/ JoinWorkers \/ MergeEntry \/ MergeFinish

Spec == Init /\ [][Next]_vars

(***************************************************************************)
(* process_token_count under a fair scheduler                              *)
(***************************************************************************)
\* counting runs on a host with several cores: every root list and every
\* pool size of PoolRuns, with one tokenizer and no ignore pattern
InitCount ==
    /\ cli \in {c \in PoolRuns : /\ c.tokenizer_model = "Gemini15Flash"
                                 /\ c.ignore_patterns = <<>>}
    /\ fs \in [order : {"fwd"}, cores : {MaxWorkers}]
    /\ InitRest

NextCount ==
    \/ CountStart \/ DiscoverFileRoot \/ DiscoverDirRoot \/ DiscoverEntry
    \/ DiscoverWalkEnd \/ DiscoverFinish
    \/ \E w \in 1..MaxWorkers :
          \/ WorkerClaim(w) \/ WorkerRead(w) \/ WorkerLockResults(w)
          \/ WorkerInsert(w) \/ WorkerLockCounter(w) \/ WorkerAdd(w)
          \/ WorkerInc(w)
    \/ JoinWorkers \/ MergeEntry \/ MergeFinish

\* The main thread and the threads of the pool are scheduled by the host:
\* while some step of the run can be taken, one is taken. A mutex is held
\* for a block that does not wait, so this is all the run needs.
SpecCount == InitCount /\ [][NextCount]_vars /\ WF_vars(NextCount)

(***************************************************************************)
(* TokenReport on its own: any sequence of add_file and set_duration       *)
(***************************************************************************)
\* a command line for the specifications that do not walk the tree
DefaultCli ==
    [paths |-> <<1>>, extensions |-> <<>>, include_hidden |-> FALSE,
     ignore_files_only |-> FALSE, ignore_gitignore |-> FALSE,
     exclude_vcs |-> TRUE, include_vcs |-> FALSE, ignore_patterns |-> <<>>,
     output_format |-> "Default", line_numbers |-> FALSE,
     count_tokens |-> FALSE, tokenizer_model |-> "Gemini15Flash",
     num_threads |-> 0]

ReportPaths == {2, 7}

InitReport ==
    /\ cli = [DefaultCli EXCEPT !.count_tokens = TRUE]
    /\ fs = [order |-> "fwd", cores |-> 1]
    /\ pc = "report"
    /\ rootIdx = 0 /\ walk = <<>> /\ writer = WriterNew /\ reads = EmptyMap
    /\ all_files = <<>> /\ shared_results = EmptyMap /\ token_counter = 0
    /\ progress = 0 /\ locks = [results |-> 0, counter |-> 0]
    /\ workers = [w \in 1..MaxWorkers |-> Idle]
    /\ claimed = {} /\ final_results = <<>>
    /\ report = TokenReportNew
    /\ pool = 0 /\ content = <<>> /\ ops = 0 /\ ret = <<>>

\* a call of add_file
ReportAddFile ==
    /\ pc = "report" /\ ops < MaxOps
    /\ \E path \in ReportPaths, token_count \in 0..MaxCount :
          report' = add_file(report, path, token_count)
    /\ ops' = ops + 1
    /\ UNCHANGED <<cli, fs, pc, rootIdx, walk, writer, reads, all_files,
                   shared_results, token_counter, progress, locks, workers,
                   claimed, final_results, pool, content, ret>>

\* a call of set_duration
ReportSetDuration ==
    /\ pc = "report" /\ ops < MaxOps
    /\ \E d \in Durations : report' = set_duration(report, d)
    /\ ops' = ops + 1
    /\ UNCHANGED <<cli, fs, pc, rootIdx, walk, writer, reads, all_files,
                   shared_results, token_counter, progress, locks, workers,
                   claimed, final_results, pool, content, ret>>

NextReport == ReportAddFile \/ ReportSetDuration

SpecReport == InitReport /\ [][NextReport]_vars

(***************************************************************************)
(* The formatters on their own: print_path on one text                     *)
(***************************************************************************)
Alphabet == {"a", BT, "\n", "\r"}

RECURSIVE Texts(_)
\* every text of at most n characters
Texts(n) ==
    IF n = 0 THEN { <<>> }
    ELSE LET shorter == Texts(n - 1)
         IN shorter \cup {Append(t, ch) : t \in shorter, ch \in Alphabet}

\* "Line 1" to "Line n", joined by newlines
LineText(n) ==
    join([i \in 1..n |-> <<"L", "i", "n", "e", " ">> \o to_string(i)], <<"\n">>)

\* line counts around the widths 1, 2 and 3
LineCounts == {3, 9, 10, 11, 99, 100}

FormatterTexts == Texts(MaxLen) \cup {LineText(n) : n \in LineCounts}

InitFormat ==
    /\ cli \in {[DefaultCli EXCEPT !.output_format = f, !.line_numbers = ln] :
                   f \in Formats, ln \in BOOLEAN}
    /\ content \in FormatterTexts
    /\ fs = [order |-> "fwd", cores |-> 1]
    /\ pc = "format"
    /\ rootIdx = 0 /\ walk = <<>> /\ writer = WriterNew /\ reads = EmptyMap
    /\ all_files = <<>> /\ shared_results = EmptyMap /\ token_counter = 0
    /\ progress = 0 /\ locks = [results |-> 0, counter |-> 0]
    /\ workers = [w \in 1..MaxWorkers |-> Idle]
    /\ claimed = {} /\ final_results = <<>>
    /\ report = TokenReportNew
    /\ pool = 0 /\ ops = 0 /\ ret = <<>>

\* the path the text is printed under
FormatPaths == {2, 7}

\* print_path on the text
FormatPath ==
    /\ pc = "format"
    /\ \E path \in FormatPaths, failAt \in 0..WritesPerDocument(cli.output_format) :
          LET r == print_path(writer, path, extension(path), content,
                              cli.output_format, cli.line_numbers, failAt)
          IN /\ writer' = r.writer
             /\ pc' = IF r.ok THEN "formatted" ELSE "failed"
    /\ ops' = ops + 1
    /\ UNCHANGED <<cli, fs, rootIdx, walk, reads, countVars, content, ret>>

NextFormat == FormatPath

SpecFormat == InitFormat /\ [][NextFormat]_vars

(***************************************************************************)
(* should_ignore on its own: calls on one path with one pattern list       *)
(***************************************************************************)
PatDead == <<"d", "e", "a", "d", "/">>
PatStar == <<"*">>

\* the patterns the lists are made of
IgnorePatterns == {PatLog, PatNodeModules, PatUnclosed, PatDead, PatStar}

RECURSIVE PatternLists(_)
\* every list of at most k patterns
PatternLists(k) ==
    IF k = 0 THEN { <<>> }
    ELSE LET shorter == PatternLists(k - 1)
         IN shorter \cup {Append(l, pat) : l \in shorter, pat \in IgnorePatterns}

\* a.py, out.log, the directory node_modules, the broken link dead
IgnorePaths == {2, 7, 9, 13}

InitIgnore ==
    /\ cli \in {[DefaultCli EXCEPT !.paths = <<n>>, !.ignore_patterns = l,
                                   !.ignore_files_only = f] :
                   n \in IgnorePaths, l \in PatternLists(MaxPatterns), f \in BOOLEAN}
    /\ fs = [order |-> "fwd", cores |-> 1]
    /\ pc = "ignore"
    /\ rootIdx = 0 /\ walk = <<>> /\ writer = WriterNew /\ reads = EmptyMap
    /\ all_files = <<>> /\ shared_results = EmptyMap /\ token_counter = 0
    /\ progress = 0 /\ locks = [results |-> 0, counter |-> 0]
    /\ workers = [w \in 1..MaxWorkers |-> Idle]
    /\ claimed = {} /\ final_results = <<>>
    /\ report = TokenReportNew
    /\ pool = 0 /\ content = <<>> /\ ops = 0 /\ ret = <<>>

\* a call of should_ignore
ShouldIgnoreCall ==
    /\ pc = "ignore" /\ ops < MaxOps
    /\ ret' = Append(ret, should_ignore(cli.paths[1], cli.ignore_patterns,
                                        cli.ignore_files_only))
    /\ ops' = ops + 1
    /\ UNCHANGED <<cli, fs, pc, rootIdx, walk, writer, reads, countVars, content>>

NextIgnore == ShouldIgnoreCall

SpecIgnore == InitIgnore /\ [][NextIgnore]_vars

(***************************************************************************)
(* The tokenizer tables and the cost estimate on their own                 *)
(***************************************************************************)
\* a value returned by one of the calls below
Returned(fn, arm, count, tokens, cost, estimated) ==
    [fn |-> fn, arm |-> arm, count |-> count, tokens |-> tokens,
     input |-> cost.input, output |-> cost.output, estimated |-> estimated]

NoCost == [input |-> 0, output |-> 0]

\* the texts count_tokens is called on
TokenizerTexts == { <<>>, <<"a", "\n">> }

InitTokenizer ==
    /\ cli \in {[DefaultCli EXCEPT !.count_tokens = TRUE, !.tokenizer_model = m] :
                   m \in TokenizerModels}
    /\ content \in TokenizerTexts
    /\ report \in {add_file(TokenReportNew, 2, t) : t \in 0..MaxTokens}
    /\ fs = [order |-> "fwd", cores |-> 1]
    /\ pc = "tokenizer"
    /\ rootIdx = 0 /\ walk = <<>> /\ writer = WriterNew /\ reads = EmptyMap
    /\ all_files = <<>> /\ shared_results = EmptyMap /\ token_counter = 0
    /\ progress = 0 /\ locks = [results |-> 0, counter |-> 0]
    /\ workers = [w \in 1..MaxWorkers |-> Idle]
    /\ claimed = {} /\ final_results = <<>>
    /\ pool = 0 /\ ops = 0 /\ ret = <<>>

tokenizerVars == <<cli, fs, pc, rootIdx, walk, writer, reads, all_files,
                   shared_results, token_counter, progress, locks, workers,
                   claimed, final_results, report, pool, content>>

\* a call of count_tokens
CountTokensCall ==
    /\ pc = "tokenizer" /\ ops < MaxOps
    /\ ret' = Append(ret, Returned("count_tokens", count_tokens_arm(cli.tokenizer_model),
                                   count_tokens(content, cli.tokenizer_model),
                                   0, NoCost, 0))
    /\ ops' = ops + 1
    /\ UNCHANGED tokenizerVars

\* a call of get_token_cost, with no tokens or with those of the report
GetTokenCostCall ==
    /\ pc = "tokenizer" /\ ops < MaxOps
    /\ \E tokens \in {0, report.total_tokens} :
          ret' = Append(ret, Returned("get_token_cost", "", 0, tokens,
                                     get_token_cost(cli.tokenizer_model, tokens), 0))
    /\ ops' = ops + 1
    /\ UNCHANGED tokenizerVars

\* display_token_report with show_cost set: the prices and the estimate
\* that it prints
DisplayCost ==
    /\ pc = "tokenizer" /\ ops < MaxOps
    /\ ret' = Append(ret, Returned("display_token_report", "", 0, report.total_tokens,
                                   get_token_cost(cli.tokenizer_model, report.total_tokens),
                                   estimated_output_tokens(report.total_tokens)))
    /\ ops' = ops + 1
    /\ UNCHANGED tokenizerVars

NextTokenizer == CountTokensCall \/ GetTokenCostCall \/ DisplayCost

SpecTokenizer == InitTokenizer /\ [][NextTokenizer]_vars

(***************************************************************************)
(* Properties                                                              *)
(***************************************************************************)
RECURSIVE SumValues(_)
\* the sum of the values of a map
SumValues(m) ==
    IF DOMAIN m = {} THEN 0
    ELSE LET k == CHOOSE x \in DOMAIN m : TRUE
         IN m[k] + SumValues([x \in DOMAIN m \ {k} |-> m[x]])

\* the elements of a sequence
Range(q) == {q[i] : i \in 1..Len(q)}

\* the paths of the documents written so far, whole or cut short
EmittedPaths ==
    {writer.out[k].path : k \in {j \in 1..Len(writer.out) :
                                   writer.out[j].kind \in {"path", "<source>"}}}

\* the paths given as roots
Roots == Range(cli.paths)

\* one of cli.paths is listed twice in all_files
HasDuplicate(q) == \E i, j \in 1..Len(q) : i # j /\ q[i] = q[j]

\* C1: once process_token_count has merged the shared results into the
\* report, report.total_tokens is the sum of the values of
\* report.file_tokens, whatever was discovered, whatever failed to read and
\* whatever the size of the pool.
C1_TotalIsSumAfterMerge ==
    (cli.count_tokens /\ pc = "done")
        => report.total_tokens = SumValues(report.file_tokens)

\* C1 witness: a finished run of a pool of two or more threads over a list
\* that holds a path twice and a file that failed to read
C1_Witness ==
    /\ cli.count_tokens /\ pc = "done" /\ pool >= 2
    /\ HasDuplicate(all_files)
    /\ \E n \in Range(all_files) : ~readable(n)
    /\ Cardinality(DOMAIN report.file_tokens) >= 3
    /\ report.total_tokens > 0

\* C2: whatever sequence of add_file and set_duration calls was made on a
\* new TokenReport, total_tokens is the sum of the values of file_tokens.
C2_ReportInvariant ==
    pc = "report" => report.total_tokens = SumValues(report.file_tokens)

\* what the report must hold for a discovered list: every readable path of
\* the list with the token count of its text
ExpectedTokens ==
    [n \in {m \in Range(all_files) : readable(m)} |->
        count_tokens(Tree[n].text, cli.tokenizer_model)]

\* C3: the finished report is a function of the discovered list and of the
\* file contents alone: its mapping holds exactly the readable paths of the
\* list, each with the count of its text, and its total is their sum, for
\* every pool size and every interleaving of the workers.
C3_ReportIndependentOfScheduling ==
    (cli.count_tokens /\ pc = "done")
        => /\ report.file_tokens = ExpectedTokens
           /\ report.total_tokens = SumValues(ExpectedTokens)

\* C3 witness: a finished run of a pool of two or more threads over four or
\* more items, three or more of them in the report
C3_Witness ==
    /\ cli.count_tokens /\ pc = "done" /\ pool >= 2
    /\ Len(all_files) >= 4
    /\ Cardinality(DOMAIN report.file_tokens) >= 3

\* C4: a root that is a regular file is processed whatever the filters say:
\* in content mode it is read (and printed when it decodes), in counting
\* mode it is in the discovered list (and in the report when it decodes).
C4_FileRootAlwaysProcessed ==
    \A i \in 1..Len(cli.paths) :
        (pc \notin {"report", "format", "formatted"} /\ i < rootIdx
         /\ is_file(cli.paths[i]))
            => IF cli.count_tokens
               THEN /\ cli.paths[i] \in Range(all_files)
                    /\ (pc = "done" /\ readable(cli.paths[i]))
                          => cli.paths[i] \in DOMAIN report.file_tokens
               ELSE /\ cli.paths[i] \in DOMAIN reads
                    /\ readable(cli.paths[i]) => cli.paths[i] \in EmittedPaths

\* C4 witness: the hidden file .env and the file out.log, which matches an
\* ignore pattern and none of the allowed extensions, were given as roots
\* and both were printed
C4_Witness ==
    /\ ~cli.count_tokens /\ pc = "done"
    /\ cli.paths = <<11, 7>>
    /\ ~cli.include_hidden
    /\ cli.ignore_patterns = <<PatLog, PatNodeModules>>
    /\ cli.extensions = << <<"p", "y">> >>
    /\ should_ignore(7, cli.ignore_patterns, cli.ignore_files_only)
    /\ ~extension_allowed(cli, 7) /\ ~extension_allowed(cli, 11)
    /\ {11, 7} \subseteq EmittedPaths

\* the "<document index>" lines written so far, in order
DocumentIndexLines ==
    SelectSeq(writer.out, LAMBDA l : l.kind = "<document index>")

\* C5: in the XML encoding the k-th document written through a Writer
\* carries index k, across roots and across files skipped in between.
C5_XmlIndexIsPosition ==
    \A k \in 1..Len(DocumentIndexLines) : DocumentIndexLines[k].num = k

\* C5 witness: four documents over two roots, the undecodable bin.dat read
\* and skipped between the third and the fourth
C5_Witness ==
    /\ ~cli.count_tokens /\ pc = "done" /\ cli.output_format = "Cxml"
    /\ cli.paths = <<2, 1>> /\ fs.order = "fwd"
    /\ Len(DocumentIndexLines) = 4
    /\ 8 \in DOMAIN reads /\ 8 \notin EmittedPaths
    /\ writer.document_index = 5

\* the line that holds the content in the output of one print_path call
ContentLine == IF cli.output_format = "Cxml" THEN 4 ELSE 3

\* every character of f is a grave accent
AllBackticks(f) == \A i \in 1..Len(f) : f[i] = BT

\* C6: print_as_markdown opens and closes with the same run of n grave
\* accents; n is 3 when the content holds no run of three, and otherwise the
\* smallest n above 3 of which the content holds no run; the run does not
\* occur in the body written between the fences, numbered or not.
C6_MarkdownFence ==
    (pc = "formatted" /\ cli.output_format = "Markdown")
        => LET fence == writer.out[2].text
               body == writer.out[3].text
               n == Len(fence)
           IN /\ AllBackticks(fence)
              /\ writer.out[4].text = fence
              /\ writer.out[2].kind = "fence" /\ writer.out[4].kind = "fence"
              /\ ~Contains(content, Backticks(3)) => n = 3
              /\ Contains(content, Backticks(3))
                    => /\ n > 3
                       /\ ~Contains(content, Backticks(n))
                       /\ \A m \in 4..(n - 1) : Contains(content, Backticks(m))
              /\ ~Contains(body, fence)

\* C6 witness: numbered content that holds a run of four grave accents was
\* printed between fences of five
C6_Witness ==
    /\ pc = "formatted" /\ cli.output_format = "Markdown" /\ cli.line_numbers
    /\ Contains(content, Backticks(4))
    /\ Len(writer.out[2].text) = 5

\* s cut at every newline, the newlines dropped
SplitNewline(s) ==
    LET p == SplitInclusive(s)
    IN [i \in 1..Len(p) |->
           IF p[i][Len(p[i])] = "\n" THEN SubSeq(p[i], 1, Len(p[i]) - 1) ELSE p[i]]

\* o is the number i right-aligned in w columns, two spaces, then the line
IsNumberedLine(o, i, w, line) ==
    LET d == to_string(i)
    IN /\ Len(o) = w + 2 + Len(line)
       /\ \A k \in 1..(w - Len(d)) : o[k] = " "
       /\ SubSeq(o, w - Len(d) + 1, w) = d
       /\ o[w + 1] = " " /\ o[w + 2] = " "
       /\ SubSeq(o, w + 3, Len(o)) = line

\* o starts with the characters of p
StartsWith(o, p) == Len(o) >= Len(p) /\ SubSeq(o, 1, Len(p)) = p

\* C7: for content of L lines and w the number of digits of L, the numbered
\* content is L lines joined by newlines, line i being i right-aligned in w
\* columns, two spaces and the original line i. Of three lines the first is
\* "1  Line 1"; of a hundred the first starts "  1  ", the tenth " 10  " and
\* the hundredth "100  ".
C7_LineNumbers ==
    (pc = "formatted" /\ cli.line_numbers)
        => LET ls == lines(content)
               L == Len(ls)
               w == Len(to_string(L))
               body == writer.out[ContentLine].text
               o == SplitNewline(body)
           IN /\ Len(o) = L
              /\ \A i \in 1..L : IsNumberedLine(o[i], i, w, ls[i])
              /\ content = LineText(3)
                    => o[1] = <<"1", " ", " ", "L", "i", "n", "e", " ", "1">>
              /\ content = LineText(100)
                    => /\ StartsWith(o[1], <<" ", " ", "1", " ", " ">>)
                       /\ StartsWith(o[10], <<" ", "1", "0", " ", " ">>)
                       /\ StartsWith(o[100], <<"1", "0", "0", " ", " ">>)

\* C7 witness: the hundred lines "Line 1" to "Line 100" were numbered
C7_Witness ==
    /\ pc = "formatted" /\ cli.line_numbers
    /\ content = LineText(100)
    /\ Len(lines(writer.out[ContentLine].text)) = 100

\* the ignore list holds a pattern Glob::new rejects
HasInvalidPattern == \E i \in 1..Len(cli.ignore_patterns) : ~GlobValid(cli.ignore_patterns[i])

\* the ignore list holds a pattern that matches the name of n
MatchesValidPattern(n) ==
    \E i \in 1..Len(cli.ignore_patterns) :
        GlobValid(cli.ignore_patterns[i]) /\ GlobMatch(cli.ignore_patterns[i], file_name(n))

\* the entries from below root r down to n, n included
PathBelow(n, r) == {a \in NodeIds : (a = n \/ IsUnder(n, a)) /\ IsUnder(a, r)}

\* n lies below a directory root and no walker filter skips it or a
\* directory between that root and it
WalkReaches(n) ==
    \E r \in Roots : is_dir(r) /\ IsUnder(n, r)
                     /\ \A a \in PathBelow(n, r) : ~skip_entry(cli, a)

\* the run has taken up file n: read it (content mode), listed it (counting)
Processed(n) ==
    IF cli.count_tokens THEN n \in Range(all_files) ELSE n \in DOMAIN reads

\* the files a directory walk has yielded: those taken up that are no roots
Yielded ==
    {n \in NodeIds \ Roots : pc \notin {"report", "format", "formatted"} /\ Processed(n)}

\* C8 as stated, for the directory walks, where the ignore list is
\* consulted: with an invalid glob pattern in the ignore list the operation
\* aborts before any file is processed, so that no file of a walk is taken
\* up, no document of one is written, no entry of one is reported, and no
\* run over a directory root ends well.
C8_InvalidGlobAborts ==
    (HasInvalidPattern /\ pc \notin {"report", "format", "formatted"})
        => /\ Yielded = {}
           /\ EmittedPaths \ Roots = {}
           /\ DOMAIN report.file_tokens \ Roots = {}
           /\ (\E r \in Roots : is_dir(r)) => pc # "done"

\* C8, what the code does instead: the error of build_globset is swallowed.
\* should_ignore then returns false for every path, so the whole ignore
\* list, its valid patterns too, excludes nothing: a run that ends has
\* processed every file of the walk that has an allowed extension.
C8_InvalidGlobDisablesIgnoreList ==
    (HasInvalidPattern /\ pc = "done")
        => \A n \in NodeIds :
              (is_file(n) /\ WalkReaches(n) /\ extension_allowed(cli, n))
                  => Processed(n)

\* C8, the case of the behaviour above: beside the unclosed "[" the list holds "*.log", and out.log
\* was read and printed all the same
C8_Witness ==
    /\ HasInvalidPattern /\ pc = "done" /\ ~cli.count_tokens
    /\ cli.paths = <<1>>
    /\ MatchesValidPattern(7)
    /\ 7 \in DOMAIN reads /\ 7 \in EmittedPaths

\* n lies under a directory named .git, .svn or .hg that was not itself
\* given as a root
UnderVcsDirectory(n) ==
    \E a \in NodeIds \ Roots : is_dir(a) /\ IsVcsName(file_name(a)) /\ IsUnder(n, a)

\* C9 as stated: with exclude_vcs set and include_vcs not, a directory walk
\* yields no file under a directory named .git, .svn or .hg, in both modes,
\* whatever the gitignore and hidden-file settings.
C9_VcsDirectoriesPruned ==
    (cli.exclude_vcs /\ ~cli.include_vcs)
        => \A n \in Yielded : ~UnderVcsDirectory(n)

\* n, or a directory between a directory root and n, has a name with a
\* leading dot, for every directory root n lies under
HiddenBelowRoot(n) ==
    \A r \in Roots :
        (is_dir(r) /\ IsUnder(n, r))
            => \E a \in PathBelow(n, r) : file_name(a)[1] = "."

\* n passes every filter other than the hidden-file one, below root r
PassesOtherFilters(n, r) ==
    /\ readable(n)
    /\ extension_allowed(cli, n)
    /\ ~should_ignore(n, cli.ignore_patterns, cli.ignore_files_only)
    /\ \A a \in PathBelow(n, r) :
          /\ Tree[a].kind # "broken"
          /\ ~gitignore_skips(cli, a)
          /\ (cli.exclude_vcs /\ ~cli.include_vcs)
                => ~(is_dir(a) /\ IsVcsName(file_name(a)))

\* the command line leaves every filter but the hidden-file one at its default
DefaultFilters ==
    /\ cli.extensions = <<>> /\ cli.ignore_patterns = <<>>
    /\ ~cli.ignore_gitignore /\ cli.exclude_vcs /\ ~cli.include_vcs

\* C10: in content mode, without include_hidden no file of a directory walk
\* whose name, or the name of a directory between the root and it, has a
\* leading dot is in the document (of proj, a.py is and .hidden/b.txt is
\* not); with include_hidden such a file is in the document of a finished
\* run when it passes the other filters.
C10_HiddenFiles ==
    (~cli.count_tokens /\ pc \notin {"report", "format", "formatted"})
        => /\ ~cli.include_hidden
                => \A n \in EmittedPaths \ Roots : ~HiddenBelowRoot(n)
           /\ (cli.include_hidden /\ pc = "done")
                => \A n \in NodeIds, r \in Roots :
                      (is_dir(r) /\ IsUnder(n, r) /\ PassesOtherFilters(n, r))
                          => n \in EmittedPaths
           /\ (DefaultFilters /\ cli.paths = <<1>> /\ pc = "done")
                => /\ 2 \in EmittedPaths
                   /\ 4 \in EmittedPaths <=> cli.include_hidden

\* C10 witness: the walk of proj with the default settings ended with a.py
\* in the document and with neither .hidden/b.txt nor .env in it
C10_Witness ==
    /\ ~cli.count_tokens /\ pc = "done"
    /\ DefaultFilters /\ ~cli.include_hidden /\ cli.paths = <<1>>
    /\ 2 \in EmittedPaths
    /\ 4 \notin EmittedPaths /\ 11 \notin EmittedPaths

\* the run is one of collect_file_contents or process_token_count
InRun ==
    pc \in {"start", "roots", "walk", "discover", "discover_walk", "counting",
            "merge", "done", "failed"}

\* the paths of the documents written so far, in the order written
EmittedPathSeq ==
    LET heads == SelectSeq(writer.out, LAMBDA l : l.kind \in {"path", "<source>"})
    IN [k \in 1..Len(heads) |-> heads[k].path]

\* the output of the walk: the documents of the aggregation, or the
\* discovered list of counting mode
WalkOutput == IF cli.count_tokens THEN all_files ELSE EmittedPathSeq

\* file n is eligible: it is a root, or a walk from a directory root reaches
\* it and it passes the checks of the walk loop; in content mode only a
\* file that decodes gives a document
Eligible(n) ==
    /\ is_file(n)
    /\ n \in Roots \/ (WalkReaches(n) /\ classify(cli, n) = "file")
    /\ cli.count_tokens \/ readable(n)

\* C11 as stated: whatever the list of roots (a root twice, a directory
\* with one of its sub-directories, a file with the directory that holds
\* it), no path is in the output of the walk twice, no directory is in it,
\* and once the walk has ended every eligible file is in it.
C11_EachFileOnce ==
    InRun => /\ ~HasDuplicate(WalkOutput)
             /\ \A n \in Range(WalkOutput) : ~is_dir(n)
             /\ (pc \in {"counting", "merge", "done"})
                   => \A n \in NodeIds : Eligible(n) => n \in Range(WalkOutput)

\* the extension of a name: the text after its last dot, without the dot;
\* empty when the name has no extension, which is when it has no dot or its
\* only dot is its first character
PathExtension(name) ==
    LET cuts == {d \in 2..Len(name) :
                    name[d] = "." /\ \A j \in (d + 1)..Len(name) : name[j] # "."}
    IN IF cuts = {} THEN <<>>
       ELSE LET d == CHOOSE x \in cuts : TRUE IN SubSeq(name, d + 1, Len(name))

\* C12: in a directory walk with a non-empty list of allowed extensions, a
\* file is yielded only if its extension is equal, letter case included, to
\* an entry of the list; with an empty list the filter excludes nothing, so
\* that a finished walk has yielded every file it reaches that the ignore
\* patterns let through.
C12_ExtensionFilter ==
    InRun =>
        /\ cli.extensions # <<>>
              => \A n \in Yielded :
                    \E i \in 1..Len(cli.extensions) :
                        cli.extensions[i] = PathExtension(file_name(n))
        /\ (cli.extensions = <<>> /\ pc = "done")
              => \A n \in NodeIds :
                    (is_file(n) /\ WalkReaches(n)
                     /\ ~should_ignore(n, cli.ignore_patterns, cli.ignore_files_only))
                        => Processed(n)

\* C12 witness: with the list ["PY"] the walk of the whole tree printed
\* e.PY and left a.py, out.log, config and .env unread
C12_Witness ==
    /\ ~cli.count_tokens /\ pc = "done"
    /\ cli.extensions = << <<"P", "Y">> >>
    /\ 15 \in EmittedPaths
    /\ {2, 6, 7, 11} \cap DOMAIN reads = {}

\* the rearrangements of a list
Rearrangements(l) ==
    {[i \in 1..Len(l) |-> l[f[i]]] :
        f \in {g \in [1..Len(l) -> 1..Len(l)] :
                  \A i, j \in 1..Len(l) : g[i] = g[j] => i = j}}

\* a pattern of list l matches the text s
SomePatternMatches(l, s) ==
    \E k \in 1..Len(l) : GlobValid(l[k]) /\ GlobMatch(l[k], s)

\* C13 as stated: on a path that is no directory should_ignore returns true
\* exactly when the list is non-empty and a pattern of it matches the bare
\* file name, and it returns the same for every rearrangement of the list
\* and on every repeated call.
C13_ShouldIgnoreFiles ==
    (pc = "ignore" /\ ~is_dir(cli.paths[1]))
        => \A i \in 1..Len(ret) :
              /\ ret[i] = (cli.ignore_patterns # <<>>
                           /\ SomePatternMatches(cli.ignore_patterns,
                                                 file_name(cli.paths[1])))
              /\ \A q \in Rearrangements(cli.ignore_patterns) :
                    should_ignore(cli.paths[1], q, cli.ignore_files_only) = ret[i]

\* C14: the name with a trailing separator is tested for directories only.
\* For a list of patterns that Glob::new accepts, none of which matches the
\* bare name and one of which matches the name followed by "/",
\* should_ignore returns true when ignore_files_only is false and the path
\* is an existing directory, and false otherwise.
C14_TrailingSeparator ==
    (/\ pc = "ignore"
     /\ \A k \in 1..Len(cli.ignore_patterns) : GlobValid(cli.ignore_patterns[k])
     /\ ~SomePatternMatches(cli.ignore_patterns, file_name(cli.paths[1]))
     /\ SomePatternMatches(cli.ignore_patterns, file_name(cli.paths[1]) \o <<"/">>))
        => \A i \in 1..Len(ret) :
              ret[i] = (~cli.ignore_files_only /\ is_dir(cli.paths[1]))

\* C14 witness: "node_modules/" on the directory node_modules, with
\* ignore_files_only false, returned true
C14_Witness ==
    /\ pc = "ignore" /\ cli.paths = <<9>>
    /\ cli.ignore_patterns = <<PatNodeModules>> /\ ~cli.ignore_files_only
    /\ ret # <<>> /\ ret[1] = TRUE

\* directory a lies below a directory root, and an ignore pattern matches
\* its name or its name followed by "/"
IgnoredDirectory(a) ==
    /\ is_dir(a)
    /\ \E r \in Roots : is_dir(r) /\ IsUnder(a, r)
    /\ \/ SomePatternMatches(cli.ignore_patterns, file_name(a))
       \/ SomePatternMatches(cli.ignore_patterns, file_name(a) \o <<"/">>)

\* C15 as stated, for the lists of patterns that Glob::new accepts: in a
\* directory walk with ignore_files_only false no file beneath a directory
\* that an ignore pattern matches is yielded; with ignore_files_only true
\* the patterns exclude files only, so that a finished walk has yielded
\* every file it reaches that passes the checks of the walk loop.
C15_IgnoredDirectoriesPruned ==
    (InRun /\ \A k \in 1..Len(cli.ignore_patterns) : GlobValid(cli.ignore_patterns[k]))
        => /\ ~cli.ignore_files_only
                 => \A n \in Yielded :
                       ~\E a \in NodeIds : IgnoredDirectory(a) /\ IsUnder(n, a)
           /\ (cli.ignore_files_only /\ pc \in {"counting", "merge", "done"})
                 => \A n \in NodeIds :
                       (is_file(n) /\ WalkReaches(n) /\ classify(cli, n) = "file")
                           => Processed(n)

RECURSIVE CountedTokens(_)
\* the token counts of the readable items of a list, summed item by item
CountedTokens(q) ==
    IF q = <<>> THEN 0
    ELSE (IF readable(Head(q))
          THEN count_tokens(Tree[Head(q)].text, cli.tokenizer_model)
          ELSE 0) + CountedTokens(Tail(q))

\* C16: in the counting phase a file that cannot be read as text is
\* skipped and the batch goes on. Once the phase has ended the progress
\* position is the number of discovered files, the shared results hold
\* exactly the readable ones, the running counter holds the tokens of the
\* readable items and nothing for the others, and the finished report has
\* no entry for an unreadable file.
C16_UnreadableSkipped ==
    (cli.count_tokens /\ pc \in {"merge", "done"})
        => /\ progress = Len(all_files)
           /\ DOMAIN shared_results = {n \in Range(all_files) : readable(n)}
           /\ token_counter = CountedTokens(all_files)
           /\ pc = "done"
                 => /\ \A n \in DOMAIN report.file_tokens : readable(n)
                    /\ report.total_tokens = SumValues(shared_results)

\* C16 witness: a pool of two or more threads finished a list of three or
\* more items that holds the undecodable bin.dat, which was read
C16_Witness ==
    /\ cli.count_tokens /\ pc = "done" /\ pool >= 2
    /\ Len(all_files) >= 3 /\ 8 \in Range(all_files) /\ 8 \in DOMAIN reads
    /\ progress = Len(all_files)
    /\ 8 \notin DOMAIN report.file_tokens
    /\ Cardinality(DOMAIN report.file_tokens) >= 2

\* content mode is at an entry: a root that is a regular file, or the next
\* result of the walker
AtEntry ==
    /\ ~cli.count_tokens
    /\ \/ pc = "walk" /\ walk # <<>>
       \/ pc = "roots" /\ rootIdx <= Len(cli.paths) /\ is_file(cli.paths[rootIdx])

\* that entry
CurrentEntry == IF pc = "walk" THEN Head(walk) ELSE cli.paths[rootIdx]

\* a step of content mode over an entry that cannot be read (undecodable
\* content, an error result of the walker) writes nothing and is no error
UnreadableEntryIsSkipped ==
    (AtEntry /\ ~readable(CurrentEntry)) => (writer' = writer /\ pc' # "failed")

\* a finished aggregation holds a document for every eligible file and
\* none for a path that cannot be read
OthersStillEmitted ==
    (~cli.count_tokens /\ pc = "done")
        => /\ \A n \in NodeIds : Eligible(n) => n \in EmittedPaths
           /\ \A n \in EmittedPaths : readable(n)

\* C17: in content mode no error on a single file is fatal: an entry whose
\* content cannot be read or decoded, and an error result of the walker,
\* give no output and no error, and every other eligible file is emitted.
C17_NoFatalFileError == []OthersStillEmitted /\ [][UnreadableEntryIsSkipped]_vars

\* C17 witness: the walk of the whole tree ended well; the undecodable
\* bin.dat was read and gave no document, and a.py and out.log, on either
\* side of it and of the broken link dead, were printed
C17_Witness ==
    /\ ~cli.count_tokens /\ pc = "done" /\ cli.paths = <<1>>
    /\ 8 \in DOMAIN reads /\ 8 \notin EmittedPaths
    /\ ~skip_entry(cli, 13)
    /\ {2, 7} \subseteq EmittedPaths

\* the positions of the lines of one kind in the output
LinesOfKind(kind) == {k \in 1..Len(writer.out) : writer.out[k].kind = kind}

\* C18: with the XML encoding the aggregation is wrapped once, by
\* collect_file_contents: "<documents>" is the first line written and is
\* written once however many documents and roots follow, and a finished
\* aggregation ends with the one "</documents>" line; with the default and
\* the Markdown encodings neither line is ever written.
C18_WrappedOnce ==
    (InRun /\ ~cli.count_tokens)
        => IF cli.output_format = "Cxml"
           THEN /\ pc # "start" => LinesOfKind("<documents>") \subseteq {1}
                /\ pc \in {"roots", "walk", "done"} => LinesOfKind("<documents>") = {1}
                /\ LinesOfKind("</documents>") =
                       IF pc = "done" THEN {Len(writer.out)} ELSE {}
                /\ pc = "done" => Len(writer.out) >= 2
           ELSE LinesOfKind("<documents>") \cup LinesOfKind("</documents>") = {}

\* C18 witness: a finished XML aggregation of three or more documents over
\* two roots
C18_Witness ==
    /\ ~cli.count_tokens /\ pc = "done" /\ cli.output_format = "Cxml"
    /\ Len(cli.paths) = 2
    /\ Cardinality(LinesOfKind("<source>")) >= 3
    /\ writer.out[1].kind = "<documents>"
    /\ writer.out[Len(writer.out)].kind = "</documents>"

GeminiModels ==
    {"Gemini15Pro", "Gemini15Flash", "Gemini20Flash", "Gemini20FlashLite",
     "Gemini20Pro", "Gemini20ProExp", "Gemini20ProExp0205",
     "Gemini20FlashThinkingExp"}
GptModels == {"Gpt35Turbo", "Gpt4", "Gpt4Turbo"}
ClaudeModels == {"Claude3Sonnet", "Claude3Opus"}

\* the values returned so far by the calls of one function
ReturnedBy(fn) == {ret[i] : i \in {j \in 1..Len(ret) : ret[j].fn = fn}}

\* C19: the mapping from models to tokenizer families is total over the 13
\* models and gives "cl100k_base" for every Gemini and GPT model and
\* "p50k_base" for every Claude model, so that count_tokens never takes
\* its fallback arm.
C19_TokenizerFamilies ==
    pc = "tokenizer"
        => /\ Cardinality(TokenizerModels) = 13
           /\ TokenizerModels = GeminiModels \cup GptModels \cup ClaudeModels
           /\ \A m \in GeminiModels \cup GptModels : get_tokenizer_name(m) = "cl100k_base"
           /\ \A m \in ClaudeModels : get_tokenizer_name(m) = "p50k_base"
           /\ \A r \in ReturnedBy("count_tokens") :
                 /\ r.arm # "_"
                 /\ r.arm = IF cli.tokenizer_model \in ClaudeModels
                            THEN "p50k_base" ELSE "cl100k_base"

\* C19 witness: count_tokens was called for Claude3Opus on a text that is
\* not empty and took the p50k_base arm
C19_Witness ==
    /\ pc = "tokenizer" /\ cli.tokenizer_model = "Claude3Opus"
    /\ \E r \in ReturnedBy("count_tokens") : r.arm = "p50k_base" /\ r.count > 0

\* C20: the estimated output token count is the total times 0.2 rounded to
\* the nearest integer (five times the estimate is within 2 of the total),
\* and the prices get_token_cost returns depend on the model alone: the
\* same for every token count passed, (0.0010, 0.0020) for Gpt35Turbo and
\* (0.015, 0.075) for Claude3Opus, in ten-thousandths (10, 20), (150, 750).
C20_CostEstimate ==
    pc = "tokenizer"
        => /\ \A r \in ReturnedBy("display_token_report") :
                 /\ 5 * r.estimated - 2 <= report.total_tokens
                 /\ report.total_tokens <= 5 * r.estimated + 2
           /\ \A r, q \in ReturnedBy("get_token_cost") \cup ReturnedBy("display_token_report") :
                 r.input = q.input /\ r.output = q.output
           /\ \A r \in ReturnedBy("get_token_cost") :
                 /\ cli.tokenizer_model = "Gpt35Turbo" => (r.input = 10 /\ r.output = 20)
                 /\ cli.tokenizer_model = "Claude3Opus" => (r.input = 150 /\ r.output = 750)

\* C20 witness: for Gpt35Turbo and a report of 7 tokens get_token_cost was
\* called with 0 and with 7 tokens, and the estimate printed was 1
C20_Witness ==
    /\ pc = "tokenizer" /\ cli.tokenizer_model = "Gpt35Turbo"
    /\ report.total_tokens = 7
    /\ \E r, q \in ReturnedBy("get_token_cost") : r.tokens = 0 /\ q.tokens = 7
    /\ \E r \in ReturnedBy("display_token_report") : r.estimated = 1

\* the items of the list whose worker is at one of the given positions
ItemsAt(positions) ==
    {workers[w].item : w \in {v \in 1..MaxWorkers : workers[v].pc \in positions}}

\* the items whose read succeeded and whose insert into the shared results
\* was made, and those whose count was also added to the counter
InsertedItems ==
    {i \in claimed : readable(all_files[i])} \ ItemsAt({"read", "lock_results", "insert"})
AddedItems == InsertedItems \ ItemsAt({"lock_counter", "add"})

RECURSIVE ItemTokens(_)
\* the token counts of a set of items, summed
ItemTokens(items) ==
    IF items = {} THEN 0
    ELSE LET i == CHOOSE x \in items : TRUE
         IN count_tokens(Tree[all_files[i]].text, cli.tokenizer_model)
            + ItemTokens(items \ {i})

\* C21 as stated: the insert into the shared results and the addition to
\* the running total are one atomic contribution, so that whenever the
\* results can be locked and looked at, the running total includes the
\* count of every item whose entry they hold.
C21_ContributionAtomic ==
    (pc = "counting" /\ locks.results = 0)
        => token_counter = ItemTokens(InsertedItems)

\* C21 amended: the contribution is two updates, each atomic under its own
\* mutex, the insert first and the addition second. The shared results
\* hold the entries of exactly the items inserted, the running total is
\* the sum over the items added, which may lag behind, and when every
\* worker has finished the total includes every inserted item.
C21_TwoAtomicUpdates ==
    pc = "counting"
        => /\ DOMAIN shared_results = {all_files[i] : i \in InsertedItems}
           /\ token_counter = ItemTokens(AddedItems)
           /\ ItemsAt({"insert"}) # {} => locks.results # 0
           /\ ItemsAt({"add"}) # {} => locks.counter # 0
           /\ (Unclaimed = {} /\ \A w \in 1..MaxWorkers : workers[w].pc = "idle")
                 => token_counter = ItemTokens(InsertedItems)

\* C21 witness: in a pool of two or more threads a worker has inserted its
\* entry and not yet locked the counter, both mutexes are free, another
\* worker is at work, and the total lacks the count of the inserted item
C21_Witness ==
    /\ pc = "counting" /\ pool >= 2
    /\ locks = [results |-> 0, counter |-> 0]
    /\ \E w, v \in 1..MaxWorkers :
          /\ w # v /\ workers[w].pc = "lock_counter" /\ workers[v].pc # "idle"
          /\ all_files[workers[w].item] \in DOMAIN shared_results
    /\ token_counter < ItemTokens(InsertedItems)

\* the workers at one position
WorkersAt(position) == {w \in 1..MaxWorkers : workers[w].pc = position}

\* each mutex has at most one holder, who is the one worker inside the
\* block the mutex guards; after the phase both are free and the counter
\* holds the tokens of every item that was read
MutexesHeld ==
    /\ pc = "counting"
          => /\ Cardinality(WorkersAt("insert")) <= 1
             /\ Cardinality(WorkersAt("add")) <= 1
             /\ WorkersAt("insert") = {locks.results} \ {0}
             /\ WorkersAt("add") = {locks.counter} \ {0}
    /\ (cli.count_tokens /\ pc \in {"merge", "done"})
          => /\ locks = [results |-> 0, counter |-> 0]
             /\ token_counter = CountedTokens(all_files)

\* a step of the counting phase changes the shared results or the counter
\* only as the step of the worker that holds the mutex, who then drops it
ChangedUnderMutex ==
    pc = "counting"
        => /\ shared_results' # shared_results
                 => (locks.results # 0 /\ workers[locks.results].pc = "insert"
                     /\ workers'[locks.results].pc # "insert" /\ locks'.results = 0)
           /\ token_counter' # token_counter
                 => (locks.counter # 0 /\ workers[locks.counter].pc = "add"
                     /\ workers'[locks.counter].pc # "add" /\ locks'.counter = 0
                     /\ token_counter' = token_counter + workers[locks.counter].count)

\* C22: in the counting phase the shared results and the running counter
\* are changed only under their own mutex, each mutex has at most one
\* holder at a time, and no increment is lost: when the workers have
\* finished the counter is the sum of the counts of the items read.
C22_MutualExclusion == []MutexesHeld /\ [][ChangedUnderMutex]_vars

\* C22 witness: in a pool of two or more threads one worker is inside the
\* counter block and another waits for the counter mutex, with a count
\* already added
C22_Witness ==
    /\ pc = "counting" /\ pool >= 2
    /\ WorkersAt("add") # {} /\ WorkersAt("lock_counter") # {}
    /\ locks.counter \in WorkersAt("add")
    /\ token_counter > 0

\* no worker has an item in hand
AllWorkersIdle == \A w \in 1..MaxWorkers : workers[w] = Idle

\* what each phase of a counting run finds and leaves
PhasesOrdered ==
    (cli.count_tokens /\ InRun)
        => /\ pc \in {"start", "discover", "discover_walk"}
                 => /\ claimed = {} /\ AllWorkersIdle
                    /\ reads = EmptyMap /\ shared_results = EmptyMap
           /\ pc = "counting" => (rootIdx > Len(cli.paths) /\ walk = <<>>)
           /\ pc \in {"start", "discover", "discover_walk", "counting"}
                 => report = TokenReportNew
           /\ pc \in {"merge", "done"}
                 => /\ AllWorkersIdle /\ Unclaimed = {}
                    /\ progress = Len(all_files)

\* the discovered list is fixed once counting has started; the report is
\* changed by the merge and the steps after it only; the shared results
\* are fixed once they were taken for the merge
PhaseFrames ==
    cli.count_tokens
        => /\ pc \in {"counting", "merge", "done"} => all_files' = all_files
           /\ report' # report => pc = "merge"
           /\ pc \in {"merge", "done"} => shared_results' = shared_results

\* C23: the phases of a counting run are strictly ordered. No file is read
\* or counted before discovery has walked every root; the report is empty
\* until the merge, which starts only when every worker has completed and
\* every item was processed; no worker runs during the merge or after it.
C23_PhasesOrdered == []PhasesOrdered /\ [][PhaseFrames]_vars

\* C23 witness: the merge after the work of a pool of two or more threads
\* on three or more items: one entry is in the report, others wait
C23_Witness ==
    /\ cli.count_tokens /\ pc = "merge" /\ pool >= 2
    /\ Len(all_files) >= 3
    /\ DOMAIN report.file_tokens # {} /\ final_results # <<>>
    /\ AllWorkersIdle

\* how often path n is in the discovered list, how often it was read
Occurrences(n) == Cardinality({i \in 1..Len(all_files) : all_files[i] = n})
ReadCount(n) == IF n \in DOMAIN reads THEN reads[n] ELSE 0

\* no entry is read a second time and none is counted twice by the bar
ReadAtMostOnce ==
    (cli.count_tokens /\ pc \in {"counting", "merge", "done"})
        => /\ \A n \in NodeIds : ReadCount(n) <= Occurrences(n)
           /\ DOMAIN reads \subseteq NodeIds
           /\ progress <= Len(all_files)

\* the parallel iteration has returned with every entry taken and read
CountingComplete ==
    /\ pc = "merge"
    /\ claimed = 1..Len(all_files) /\ progress = Len(all_files)
    /\ \A n \in NodeIds : ReadCount(n) = Occurrences(n)
    /\ DOMAIN shared_results = {n \in Range(all_files) : readable(n)}

\* C24: the counting phase always terminates, with every entry of the
\* discovered list read exactly once: no entry is retried, dropped or
\* cancelled, and a file that fails to read does not keep the others from
\* being read and counted.
C24_CountingTerminates ==
    /\ []ReadAtMostOnce
    /\ (cli.count_tokens /\ pc = "counting") ~> CountingComplete

\* C24 witness: the parallel iteration of a pool of two or more threads has
\* returned over a list of three or more entries, one of them unreadable
C24_Witness ==
    /\ CountingComplete /\ pool >= 2 /\ Len(all_files) >= 3
    /\ \E n \in Range(all_files) : ~readable(n) /\ ReadCount(n) = 1
    /\ \E n \in Range(all_files) : readable(n) /\ ReadCount(n) = 1

\* the entries of the discovered list whose read fails
FailedToRead == {i \in 1..Len(all_files) : ~readable(all_files[i])}

\* C25 as stated: after a full counting run, for every list of roots, the
\* number of entries of report.file_tokens (the "Files processed" line) is
\* the number of discovered files (the length of the list, as the run
\* prints it) minus the number of them that failed to read.
C25_OneEntryPerReadFile ==
    (cli.count_tokens /\ pc = "done")
        => Cardinality(DOMAIN report.file_tokens)
              = Len(all_files) - Cardinality(FailedToRead)

\* C28 as stated: when the counting phase has ended, the shared running
\* counter (the value of the progress message) equals report.total_tokens
\* as the merge computed it, for every list of roots, those that discover
\* a file more than once included.
C28_CounterEqualsTotal ==
    (cli.count_tokens /\ pc = "done")
        => token_counter = report.total_tokens

\* document_index counts the documents whose last line was written, and
\* stays as Writer::new left it under the other encodings
IndexCountsWholeDocuments ==
    (InRun /\ ~cli.count_tokens)
        => writer.document_index =
              IF cli.output_format = "Cxml"
              THEN 1 + Cardinality(LinesOfKind("</document>"))
              ELSE 1

\* a step changes document_index by one, in the XML encoding, together
\* with the six lines of one document and without failing; a step that
\* reads a file and writes nothing leaves it as it was
IndexStep ==
    (InRun /\ ~cli.count_tokens)
        => /\ writer'.document_index # writer.document_index
                 => /\ cli.output_format = "Cxml"
                    /\ writer'.document_index = writer.document_index + 1
                    /\ Len(writer'.out) = Len(writer.out) + 6
                    /\ writer'.out[Len(writer.out) + 1].num = writer.document_index
                    /\ writer'.out[Len(writer.out) + 6].kind = "</document>"
                    /\ pc' # "failed"
           /\ (reads' # reads /\ writer'.out = writer.out)
                 => writer'.document_index = writer.document_index

\* C26: the document index is state of the XML encoding only. print_default
\* and print_as_markdown leave it unchanged, a file skipped because it
\* cannot be read leaves it unchanged, and print_as_xml advances it by one
\* only when all six lines of the document were written; a failed write
\* leaves it unchanged.
C26_IndexIsXmlState == []IndexCountsWholeDocuments /\ [][IndexStep]_vars

\* C26 witness: an XML aggregation failed in the second document, after
\* its "<document index>" line was written; the index is still 2
C26_Witness ==
    /\ ~cli.count_tokens /\ pc = "failed" /\ cli.output_format = "Cxml"
    /\ Len(DocumentIndexLines) = 2
    /\ Cardinality(LinesOfKind("</document>")) = 1
    /\ writer.document_index = 2

\* the files a run with command line c takes up: the roots that are files,
\* and the files below a directory root that the walker of c hands out and
\* the checks of the walk loop let through
SelectedFiles(c) ==
    {n \in NodeIds :
        /\ is_file(n)
        /\ \/ n \in Range(c.paths)
           \/ /\ \E r \in Range(c.paths) :
                    /\ is_dir(r) /\ IsUnder(n, r)
                    /\ \A a \in PathBelow(n, r) : ~skip_entry(c, a)
              /\ classify(c, n) = "file"}

\* the files this run has taken up
TakenUp == {n \in NodeIds : Processed(n)}

\* the same roots and filters, handed to the other mode
OtherMode(c) == [c EXCEPT !.count_tokens = ~@]

\* C27 as stated: for the same roots, tree and filter configuration the
\* set of files process_path attempts to read equals the set of files the
\* discovery of process_token_count collects: a finished run of either
\* mode has taken up the files the other mode selects.
C27_ModesSelectSameFiles ==
    (InRun /\ pc = "done") => TakenUp = SelectedFiles(OtherMode(cli))

\* the lines of input and output correspond: as many, in the same order,
\* each output line the input line behind a prefix of w + 2 characters
LinesCorrespond(ls, o) ==
    LET w == Len(to_string(Len(ls)))
    IN /\ Len(o) = Len(ls)
       /\ \A i \in 1..Len(o) :
             /\ Len(o[i]) = w + 2 + Len(ls[i])
             /\ SubSeq(o[i], w + 3, Len(o[i])) = ls[i]

\* C29 as stated: add_line_numbers preserves the lines of its input, the
\* lines of the output being taken as the function takes those of its
\* input, with str::lines. The output has as many lines as the input, in
\* the same order; every prefix has the length w + 2, and the output line
\* without its first w + 2 characters is the input line. Empty content
\* gives empty output, and the output does not end with a line terminator.
C29_LinesPreserved ==
    (pc = "formatted" /\ cli.line_numbers)
        => LET body == writer.out[ContentLine].text
           IN /\ LinesCorrespond(lines(content), lines(body))
              /\ content = <<>> => body = <<>>
              /\ body # <<>> => body[Len(body)] # "\n"

\* C29 amended: the lines of the input are those of str::lines, the lines
\* of the output are the pieces the function joined by "\n". These
\* correspond one to one: as many, in the same order, each piece the input
\* line behind a prefix of w + 2 characters. Empty content gives empty
\* output, and the output does not end with "\n".
C29_JoinedPiecesPreserved ==
    (pc = "formatted" /\ cli.line_numbers)
        => LET body == writer.out[ContentLine].text
           IN /\ LinesCorrespond(lines(content), SplitNewline(body))
              /\ content = <<>> => body = <<>>
              /\ body # <<>> => body[Len(body)] # "\n"

\* C29 witness: a text of two lines was numbered whose first line ends in
\* a carriage return of its own, before the "\r\n" that ends the line
C29_Witness ==
    /\ pc = "formatted" /\ cli.line_numbers
    /\ content = <<"\r", "\r", "\n", "a">>
    /\ lines(content) = << <<"\r">>, <<"a">> >>
    /\ writer.out[ContentLine].text
          = <<"1", " ", " ", "\r", "\n", "2", " ", " ", "a">>

\* the outcomes of the configuration attempts of this run
PoolAttempts == {r.ok : r \in ReturnedBy("build_global")}

\* the pool exists when the counting starts, a failed attempt has not ended
\* the run, and the report of a finished run is the one the discovered
\* list determines, whatever the pool
PoolReady ==
    cli.count_tokens
        => /\ pc \in {"counting", "merge", "done"} => pool \in 1..MaxWorkers
           /\ cli.num_threads = 0 => PoolAttempts = {}
           /\ (cli.num_threads > 0 /\ pc # "start") => Cardinality(PoolAttempts) = 1
           /\ pc # "failed"
           /\ pc = "done"
                 => /\ report.file_tokens = ExpectedTokens
                    /\ report.total_tokens = SumValues(ExpectedTokens)

\* a pool that exists keeps its size; the pool is built while no item is
\* in work; the attempt of a run fails exactly when the pool exists, and
\* then the run goes on to the discovery
PoolStep ==
    cli.count_tokens
        => /\ pool # 0 => pool' = pool
           /\ pool' # pool
                 => /\ pc \in {"start", "discover"}
                    /\ claimed = {} /\ AllWorkersIdle /\ reads = EmptyMap
           /\ (pc = "start" /\ pc' # "start")
                 => /\ pc' = "discover"
                    /\ IF cli.num_threads = 0
                       THEN ret' = ret /\ pool' = pool
                       ELSE /\ ret' = Append(ret, [fn |-> "build_global",
                                                   ok |-> pool = 0])
                            /\ pool' = IF pool = 0 THEN cli.num_threads ELSE pool
           /\ pc # "start" => ret' = ret

\* C30: the size of the worker pool is applied at most once per process
\* and before any counting work starts. When process_token_count runs with
\* num_threads > 0 and the global pool exists, the attempt fails, the run
\* is not aborted, the pool keeps its size and the report is the one any
\* other pool gives; with num_threads = 0 nothing is attempted.
C30_PoolSizedOnce == []PoolReady /\ [][PoolStep]_vars

\* C30 witness: a finished run that asked for one thread in a process
\* whose pool had two: the attempt failed, two workers did the counting
C30_Witness ==
    /\ cli.count_tokens /\ pc = "done"
    /\ cli.num_threads = 1 /\ pool = 2
    /\ PoolAttempts = {FALSE}
    /\ DOMAIN report.file_tokens # {}
    /\ report.file_tokens = ExpectedTokens

====
